---- MODULE Spec2Model ----
(***************************************************************************)
(* Front end of the fosh shell: the mode-switching tokenizer               *)
(* (src/parser/tokenizer.rs), the error-recovering parser behind           *)
(* parser::parse (src/parser/mod.rs) and the parse-tree builder            *)
(* (src/builtin/engine/parse_tree.rs).                                     *)
(*                                                                         *)
(* A line is a sequence of one-character strings.  Offsets are 0-based     *)
(* byte offsets as in the source: the half-open span [s, e) of a line l    *)
(* is SubSeq(l, s + 1, e).                                                 *)
(***************************************************************************)
EXTENDS Integers, Sequences, FiniteSets, TLC

(***************************************************************************)
(* Bounds of the model.                                                    *)
(***************************************************************************)
\* longest line over the full alphabet
MaxLen == 3
\* longest line over the property-chain alphabet  $ a b .
MaxChainLen == 6
\* longest line over the command alphabet  a space ; | & $
MaxCmdLen == 4
\* longest line over the brace and string alphabet  $ { } " a
MaxNestLen == 5
\* longest line over the call alphabet  $ a ( ) .
MaxCallLen == 5
\* longest sequence of raw terminals handed to the parser
MaxTerminals == 3

(***************************************************************************)
(* Characters.                                                             *)
(***************************************************************************)
Chars ==
    {"a", "b", "c", "d", "h", "p", "s", "t", "u", "1", ".", " ", "$", "\"", "{",
     "}", "(", ")", ";", "|", "&", ","}

ChainChars == {"$", "a", "b", "."}

CmdChars == {"a", " ", ";", "|", "&", "$"}

NestChars == {"$", "{", "}", "\"", "a"}

CallChars == {"$", "a", "(", ")", "."}

WhitespaceChars == {" "}

Letters == {"a", "b", "c", "d", "h", "p", "s", "t", "u"}

Digits == {"1"}

\* [^ |;&\n\t$"}]
TopLiteralChars == Chars \ {" ", "|", ";", "&", "$", "\"", "}"}

\* [^"]
StringLiteralChars == Chars \ {"\""}

\* (\w|[_0-9])
IdentifierTailChars == Letters \cup Digits

SeqsUpTo(S, n) == UNION {[1..k -> S] : k \in 0..n}

\* the letters of cd, status and path occur in the lines of the evaluator
\* and of the editor only
AnyChars == Chars \ {"c", "d", "h", "p", "s", "t", "u"}

Lines ==
    SeqsUpTo(AnyChars, MaxLen) \cup SeqsUpTo(ChainChars, MaxChainLen)
        \cup SeqsUpTo(CmdChars, MaxCmdLen) \cup SeqsUpTo(NestChars, MaxNestLen)
        \cup SeqsUpTo(CallChars, MaxCallLen)

(***************************************************************************)
(* The three logos lexers.  A lexer is [mode, src, pos]: src is the slice  *)
(* it was created on, pos its local token_end.  LexNext returns the token  *)
(* kind ("None" at the end of the slice) and the local span.               *)
(***************************************************************************)
\* end of the longest run of characters of S that starts at local offset p
RunEnd(src, p, S) ==
    CHOOSE q \in p..Len(src) :
        /\ \A k \in (p + 1)..q : src[k] \in S
        /\ (q = Len(src) \/ src[q + 1] \notin S)

Tok(kind, s, e) == [kind |-> kind, start |-> s, end |-> e]

\* mutant: the Top lexer has a token for `{` as the Function lexer has
TopLevelTokenWithBrace(src, p) ==
    LET Match(q, c) ==
            CASE c = "&" -> Tok("Ampersand", q, q + 1)
              [] c = "|" -> Tok("Pipe", q, q + 1)
              [] c = ";" -> Tok("SemiColon", q, q + 1)
              [] c = "$" -> Tok("Dollar", q, q + 1)
              [] c = "}" -> Tok("CloseBrace", q, q + 1)
              [] c = "{" -> Tok("OpenBrace", q, q + 1)
              [] c = "\"" -> Tok("DoubleQuote", q, q + 1)
              [] OTHER -> Tok("Literal", q, RunEnd(src, q, TopLiteralChars \ {"{"}))
        At(q) == IF q = Len(src) THEN Tok("None", q, q) ELSE Match(q, src[q + 1])
    IN At(RunEnd(src, p, WhitespaceChars))

TopLevelToken(src, p) ==
    LET Match(q, c) ==
            CASE c = "&" -> Tok("Ampersand", q, q + 1)
              [] c = "|" -> Tok("Pipe", q, q + 1)
              [] c = ";" -> Tok("SemiColon", q, q + 1)
              [] c = "$" -> Tok("Dollar", q, q + 1)
              [] c = "}" -> Tok("CloseBrace", q, q + 1)
              [] c = "\"" -> Tok("DoubleQuote", q, q + 1)
              [] OTHER -> Tok("Literal", q, RunEnd(src, q, TopLiteralChars))
        At(q) == IF q = Len(src) THEN Tok("None", q, q) ELSE Match(q, src[q + 1])
    IN At(RunEnd(src, p, WhitespaceChars))

\* mutant: the String lexer knows `$` and ends a Literal before it
StringLevelTokenWithDollar(src, p) ==
    IF p = Len(src) THEN Tok("None", p, p)
    ELSE IF src[p + 1] = "\"" THEN Tok("DoubleQuote", p, p + 1)
    ELSE IF src[p + 1] = "$" THEN Tok("Dollar", p, p + 1)
    ELSE Tok("Literal", p, RunEnd(src, p, StringLiteralChars \ {"$"}))

StringLevelToken(src, p) ==
    IF p = Len(src) THEN Tok("None", p, p)
    ELSE IF src[p + 1] = "\"" THEN Tok("DoubleQuote", p, p + 1)
    ELSE Tok("Literal", p, RunEnd(src, p, StringLiteralChars))

\* [0-9]*(\.[0-9]+)?  from local offset q, longest non-empty match
NumberEnd(src, q) ==
    LET Fraction(d, f) == IF f > d + 1 THEN f ELSE d
        After(d) ==
            IF d < Len(src) /\ src[d + 1] = "."
            THEN Fraction(d, RunEnd(src, d + 1, Digits))
            ELSE d
    IN After(RunEnd(src, q, Digits))

\* mutant: the lexer stops at a byte it does not recognise
ErrorTokenStops(q) == Tok("None", q, q)

\* #[error]: a byte that starts no token is a one-byte Error token
ErrorToken(q) == Tok("Error", q, q + 1)

FunctionLevelToken(src, p) ==
    LET Match(q, c, number) ==
            CASE c = "(" -> Tok("OpenParen", q, q + 1)
              [] c = ")" -> Tok("CloseParen", q, q + 1)
              [] c = "{" -> Tok("OpenBrace", q, q + 1)
              [] c = "}" -> Tok("CloseBrace", q, q + 1)
              [] c = "," -> Tok("Comma", q, q + 1)
              [] c = "\"" -> Tok("DoubleQuote", q, q + 1)
              [] c = "&" -> Tok("Ampersand", q, q + 1)
              [] c = "|" -> Tok("Pipe", q, q + 1)
              [] c = ";" -> Tok("SemiColon", q, q + 1)
              [] c = "." /\ number = q -> Tok("Dot", q, q + 1)
              [] c = "." /\ number > q -> Tok("NumberLiteral", q, number)
              [] c \in Digits -> Tok("NumberLiteral", q, number)
              [] c \in Letters ->
                   Tok("Identifier", q, RunEnd(src, q + 1, IdentifierTailChars))
              [] OTHER -> ErrorToken(q)
        At(q) ==
            IF q = Len(src) THEN Tok("None", q, q)
            ELSE Match(q, src[q + 1], NumberEnd(src, q))
    IN At(RunEnd(src, p, WhitespaceChars))

TokenizerState(mode, src) == [mode |-> mode, src |-> src, pos |-> 0]

LexNext(lexer) ==
    CASE lexer.mode = "TopLevel" -> TopLevelToken(lexer.src, lexer.pos)
      [] lexer.mode = "FunctionLevel" -> FunctionLevelToken(lexer.src, lexer.pos)
      [] lexer.mode = "StringLevel" -> StringLevelToken(lexer.src, lexer.pos)

\* Lexer::remainder after a token that ends at local offset e
Remainder(lexer, e) == SubSeq(lexer.src, e + 1, Len(lexer.src))

(***************************************************************************)
(* Tokenizer: offset, stack, state.  tk is [offset, stack, state].         *)
(***************************************************************************)
TokenizerNew(s) ==
    [offset |-> 0, stack |-> <<>>, state |-> TokenizerState("TopLevel", s)]

push_state(tk, new_state) ==
    [tk EXCEPT !.stack = Append(tk.stack, tk.state), !.state = new_state]

\* mutant: the popped context is not looked at
pop_state_top(tk, remainder) ==
    [tk EXCEPT
        !.stack = IF tk.stack = <<>> THEN <<>>
                  ELSE SubSeq(tk.stack, 1, Len(tk.stack) - 1),
        !.state = TokenizerState("TopLevel", remainder)]

pop_state(tk, remainder) ==
    IF tk.stack = <<>>
    THEN [tk EXCEPT !.state = TokenizerState("TopLevel", remainder)]
    ELSE [tk EXCEPT
             !.stack = SubSeq(tk.stack, 1, Len(tk.stack) - 1),
             !.state = TokenizerState(tk.stack[Len(tk.stack)].mode, remainder)]

\* mutant: `$` stacks the Top context
OnDollarStacked(tk, kind, slice, spanEnd) ==
    IF kind = "Dollar"
    THEN push_state([tk EXCEPT !.offset = spanEnd],
                    TokenizerState("FunctionLevel", slice))
    ELSE tk

\* the `$` rule
OnDollar(tk, kind, slice, spanEnd) ==
    IF kind = "Dollar"
    THEN [tk EXCEPT !.offset = spanEnd,
                    !.state = TokenizerState("FunctionLevel", slice)]
    ELSE tk

\* mutant: only `;` leaves Function mode
OnSemiColonOnly(tk, kind, slice, spanEnd) ==
    IF kind = "SemiColon" /\ tk.state.mode = "FunctionLevel"
    THEN [tk EXCEPT !.offset = spanEnd,
                    !.state = TokenizerState("TopLevel", slice)]
    ELSE tk

\* the `;` `|` `&` rule
OnDelimiter(tk, kind, slice, spanEnd) ==
    IF kind \in {"SemiColon", "Pipe", "Ampersand"}
       /\ tk.state.mode = "FunctionLevel"
    THEN [tk EXCEPT !.offset = spanEnd,
                    !.state = TokenizerState("TopLevel", slice)]
    ELSE tk

\* mutant: the opening quote replaces the context instead of stacking it
OnDoubleQuoteUnstacked(tk, kind, slice, spanEnd) ==
    IF kind = "DoubleQuote"
    THEN LET t == [tk EXCEPT !.offset = spanEnd] IN
         IF t.state.mode = "StringLevel"
         THEN pop_state(t, slice)
         ELSE [t EXCEPT !.state = TokenizerState("StringLevel", slice)]
    ELSE tk

\* the `"` rule
OnDoubleQuote(tk, kind, slice, spanEnd) ==
    IF kind = "DoubleQuote"
    THEN LET t == [tk EXCEPT !.offset = spanEnd] IN
         IF t.state.mode = "StringLevel"
         THEN pop_state(t, slice)
         ELSE push_state(t, TokenizerState("StringLevel", slice))
    ELSE tk

\* mutant: `}` re-lexes the remainder without moving the offset
OnCloseBraceStaleOffset(tk, kind, slice, spanEnd) ==
    IF kind = "CloseBrace" THEN pop_state(tk, slice) ELSE tk

\* the `}` rule
OnCloseBrace(tk, kind, slice, spanEnd) ==
    IF kind = "CloseBrace"
    THEN pop_state([tk EXCEPT !.offset = spanEnd], slice)
    ELSE tk

\* the `{` rule
OnOpenBrace(tk, kind, slice, spanEnd) ==
    IF kind = "OpenBrace"
    THEN push_state([tk EXCEPT !.offset = spanEnd],
                    TokenizerState("TopLevel", slice))
    ELSE tk

\* One call of Iterator::next: the item (kind "None" when the iterator is
\* exhausted), the lexer's slice of the token, and the tokenizer afterwards.
TokenizerStep(tk) ==
    LET Rules(advanced, kind, slice, spanEnd) ==
            OnOpenBrace(
                OnCloseBrace(
                    OnDoubleQuote(
                        OnDelimiter(
                            OnDollar(advanced, kind, slice, spanEnd),
                            kind, slice, spanEnd),
                        kind, slice, spanEnd),
                    kind, slice, spanEnd),
                kind, slice, spanEnd)
        Step(t) ==
            [item |-> Tok(t.kind, t.start + tk.offset, t.end + tk.offset),
             lexeme |-> SubSeq(tk.state.src, t.start + 1, t.end),
             after |-> Rules([tk EXCEPT !.state.pos = t.end], t.kind,
                             Remainder(tk.state, t.end), t.end + tk.offset)]
    IN Step(LexNext(tk.state))

(***************************************************************************)
(* Abstract syntax tree (src/parser/ast.rs).  A node built by an error     *)
(* recovery production has kind "Error" and carries the kind that was      *)
(* expected at that place.                                                 *)
(***************************************************************************)
ASTNode(kind, s, e, children) ==
    [kind |-> kind, expected |-> kind, start |-> s, end |-> e,
     children |-> children]

ASTError(expected, s, e) ==
    [kind |-> "Error", expected |-> expected, start |-> s, end |-> e,
     children |-> <<>>]

\* a node that spans its (non-empty) list of children
Spanning(kind, children) ==
    ASTNode(kind, children[1].start, children[Len(children)].end, children)

\* a terminal turned into a leaf of the given kind
Leaf(kind, t) == ASTNode(kind, t.start, t.end, <<>>)

(***************************************************************************)
(* The grammar of parser::parse (DelimitedParser).  The grammar file is    *)
(* not part of the sources at hand; the productions and their recovery     *)
(* follow section 4.B of the specification, the node shapes are the ones   *)
(* the evaluator (src/runtime/execution.rs) reads.                         *)
(*                                                                         *)
(* Every P operator takes the terminals ts, the index i of the next        *)
(* terminal and the brace depth, and returns [node, next].                 *)
(***************************************************************************)
\* kind of the i-th terminal, "EOF" past the end
KindAt(ts, i) == IF i <= Len(ts) THEN ts[i].kind ELSE "EOF"

\* offset at which the i-th terminal starts (end of input past the end)
PosAt(ts, i) ==
    IF i <= Len(ts) THEN ts[i].start
    ELSE IF Len(ts) = 0 THEN 0 ELSE ts[Len(ts)].end

\* terminals that end an Atom at the given brace depth
Follow(depth) ==
    {"SemiColon", "Ampersand", "Pipe", "EOF"}
        \cup (IF depth > 0 THEN {"CloseBrace"} ELSE {})

\* terminals that start a Value
FirstOfValue == {"DoubleQuote", "NumberLiteral", "OpenBrace", "Identifier"}

\* index of the first terminal at or after i whose kind is in stop
SkipTo(ts, i, stop) ==
    CHOOSE j \in i..(Len(ts) + 1) :
        /\ KindAt(ts, j) \in stop \cup {"EOF"}
        /\ \A k \in i..(j - 1) : KindAt(ts, k) \notin stop

\* index of the first terminal at or after i whose kind is not in run
SkipRun(ts, i, run) ==
    CHOOSE j \in i..(Len(ts) + 1) :
        /\ KindAt(ts, j) \notin run
        /\ \A k \in i..(j - 1) : KindAt(ts, k) \in run

\* recovery: the terminals i..j-1 are dropped into one Error node
Dropped(ts, i, j, expected) ==
    ASTError(expected, PosAt(ts, i), IF j > i THEN ts[j - 1].end ELSE PosAt(ts, i))

\* recovery after an Atom: drop what cannot follow it
WithTrailing(ts, r, depth, expected) ==
    LET j == SkipTo(ts, r.next, Follow(depth)) IN
    IF j = r.next THEN r
    ELSE [node |-> Spanning(r.node.kind,
                            Append(r.node.children, Dropped(ts, r.next, j, expected))),
          next |-> j]

\* Command := CommandName CommandArguments ;  CommandArguments := Literal*
PCommand(ts, i) ==
    LET j == SkipRun(ts, i + 1, {"Literal"})
        name == Leaf("CommandName", ts[i])
        args == IF j = i + 1
                THEN ASTNode("CommandArguments", ts[i].end, ts[i].end, <<>>)
                ELSE Spanning("CommandArguments",
                              [k \in 1..(j - i - 1) |-> Leaf("Literal", ts[i + k])])
    IN [node |-> Spanning("Command", <<name, args>>), next |-> j]

\* StringLiteral := '"' Literal '"'
PStringLiteral(ts, i) ==
    LET open == Leaf("DoubleQuote", ts[i])
        hasLit == KindAt(ts, i + 1) = "Literal"
        lit == IF hasLit THEN Leaf("Literal", ts[i + 1])
               ELSE Dropped(ts, i + 1, i + 1, "Literal")
        n == IF hasLit THEN i + 2 ELSE i + 1
        hasClose == KindAt(ts, n) = "DoubleQuote"
        close == IF hasClose THEN Leaf("DoubleQuote", ts[n])
                 ELSE ASTError("DoubleQuote", lit.end, lit.end)
    IN [node |-> Spanning("StringLiteral", <<open, lit, close>>),
        next |-> IF hasClose THEN n + 1 ELSE n]

RECURSIVE PDelimited(_, _, _), PDelimitedRest(_, _, _, _)
RECURSIVE PSequenced(_, _, _), PSequencedRest(_, _, _, _)
RECURSIVE PPiped(_, _, _), PPipedRest(_, _, _, _)
RECURSIVE PAtom(_, _, _), PFunction(_, _, _), PValue(_, _, _)
RECURSIVE PPostfix(_, _, _, _), PBracedCommand(_, _, _)
RECURSIVE PParenthesizedArgumentsList(_, _, _), PParameters(_, _, _, _)

\* a level with a single operand is the operand itself
Level(kind, children) ==
    IF Len(children) = 1 THEN children[1] ELSE Spanning(kind, children)

\* Delimited := Sequenced (";" Sequenced)*
PDelimitedRest(ts, i, depth, acc) ==
    IF KindAt(ts, i) = "SemiColon"
    THEN LET More(r) ==
                 PDelimitedRest(ts, r.next, depth,
                                acc \o <<Leaf("SemiColon", ts[i]), r.node>>)
         IN More(PSequenced(ts, i + 1, depth))
    ELSE [node |-> Level("Delimited", acc), next |-> i]

PDelimited(ts, i, depth) ==
    LET Rest(r) == PDelimitedRest(ts, r.next, depth, <<r.node>>)
    IN Rest(PSequenced(ts, i, depth))

\* Sequenced := Piped ("&" Piped)*
PSequencedRest(ts, i, depth, acc) ==
    IF KindAt(ts, i) = "Ampersand"
    THEN LET More(r) ==
                 PSequencedRest(ts, r.next, depth,
                                acc \o <<Leaf("Ampersand", ts[i]), r.node>>)
         IN More(PPiped(ts, i + 1, depth))
    ELSE [node |-> Level("Sequenced", acc), next |-> i]

PSequenced(ts, i, depth) ==
    LET Rest(r) == PSequencedRest(ts, r.next, depth, <<r.node>>)
    IN Rest(PPiped(ts, i, depth))

\* Piped := Atom ("|" Atom)*
PPipedRest(ts, i, depth, acc) ==
    IF KindAt(ts, i) = "Pipe"
    THEN LET More(r) ==
                 PPipedRest(ts, r.next, depth,
                            acc \o <<Leaf("Pipe", ts[i]), r.node>>)
         IN More(PAtom(ts, i + 1, depth))
    ELSE [node |-> Level("Piped", acc), next |-> i]

PPiped(ts, i, depth) ==
    LET Rest(r) == PPipedRest(ts, r.next, depth, <<r.node>>)
    IN Rest(PAtom(ts, i, depth))

\* Atom := Command | Function, with recovery
PAtom(ts, i, depth) ==
    CASE KindAt(ts, i) = "Literal" ->
            WithTrailing(ts, PCommand(ts, i), depth, "CommandArguments")
      [] KindAt(ts, i) = "Dollar" ->
            WithTrailing(ts, PFunction(ts, i, depth), depth, "Function")
      [] OTHER ->
            LET Drop(j) == [node |-> Dropped(ts, i, j, "Command"), next |-> j]
            IN Drop(SkipTo(ts, i, Follow(depth)))

\* Function := "$" Value
PFunction(ts, i, depth) ==
    LET Of(v) ==
            [node |-> ASTNode("Function", ts[i].start, v.node.end,
                              <<Leaf("Dollar", ts[i]), v.node>>),
             next |-> v.next]
    IN Of(PValue(ts, i + 1, depth))

\* Value := Primitive | BracedCommand | PropertyInsn | PropertyCall
PValue(ts, i, depth) ==
    LET Base(k) ==
            CASE k = "DoubleQuote" -> PStringLiteral(ts, i)
              [] k = "NumberLiteral" ->
                    [node |-> Leaf("NumberLiteral", ts[i]), next |-> i + 1]
              [] k = "OpenBrace" -> PBracedCommand(ts, i, depth)
              [] k = "Identifier" ->
                    [node |-> Spanning("PropertyInsn", <<Leaf("PropertyName", ts[i])>>),
                     next |-> i + 1]
              [] OTHER ->
                    [node |-> Spanning("PropertyInsn",
                                       <<ASTError("PropertyName",
                                                  IF i = 1 THEN 0 ELSE ts[i - 1].end,
                                                  IF i = 1 THEN 0 ELSE ts[i - 1].end)>>),
                     next |-> i]
        Postfix(base) == PPostfix(ts, base.node, base.next, depth)
    IN Postfix(Base(KindAt(ts, i)))

\* PropertyInsn := Value "." PropertyName ;
\* PropertyCall := PropertyInsn ParenthesizedArgumentsList
PPostfix(ts, left, i, depth) ==
    CASE KindAt(ts, i) = "Dot" /\ KindAt(ts, i + 1) = "Identifier" ->
            PPostfix(ts,
                     Spanning("PropertyInsn",
                              <<left, Leaf("Dot", ts[i]), Leaf("PropertyName", ts[i + 1])>>),
                     i + 2, depth)
      [] KindAt(ts, i) = "Dot" /\ KindAt(ts, i + 1) # "Identifier" ->
            PPostfix(ts,
                     Spanning("PropertyInsn",
                              <<left, Leaf("Dot", ts[i]),
                                ASTError("PropertyName", ts[i].end, ts[i].end)>>),
                     i + 1, depth)
      [] KindAt(ts, i) = "OpenParen" /\ left.kind = "PropertyInsn" ->
            LET Call(a) ==
                    PPostfix(ts, Spanning("PropertyCall", <<left, a.node>>),
                             a.next, depth)
            IN Call(PParenthesizedArgumentsList(ts, i, depth))
      [] OTHER -> [node |-> left, next |-> i]

\* BracedCommand := "{" Delimited "}"
PBracedCommand(ts, i, depth) ==
    LET Close(d, hasClose) ==
            IF hasClose THEN Leaf("CloseBrace", ts[d.next])
            ELSE ASTError("CloseBrace", d.node.end, d.node.end)
        Braced(d, hasClose) ==
            [node |-> Spanning("BracedCommand",
                               <<Leaf("OpenBrace", ts[i]), d.node, Close(d, hasClose)>>),
             next |-> IF hasClose THEN d.next + 1 ELSE d.next]
        Body(d) == Braced(d, KindAt(ts, d.next) = "CloseBrace")
    IN Body(PDelimited(ts, i + 1, depth + 1))

\* ParenthesizedArgumentsList := "(" Parameter* ")" ;  Parameter := Value
PParameters(ts, i, depth, acc) ==
    LET k == KindAt(ts, i)
        last == acc[Len(acc)]
    IN
    CASE k \in FirstOfValue ->
            LET More(v) ==
                    PParameters(ts, v.next, depth,
                                Append(acc, Spanning("Parameter", <<v.node>>)))
            IN More(PValue(ts, i, depth))
      [] k = "CloseParen" ->
            [node |-> Spanning("ParenthesizedArgumentsList",
                               Append(acc, Leaf("CloseParen", ts[i]))),
             next |-> i + 1]
      [] k \in Follow(depth) /\ k # "CloseParen" ->
            [node |-> Spanning("ParenthesizedArgumentsList",
                               Append(acc, ASTError("CloseParen", last.end, last.end))),
             next |-> i]
      [] OTHER ->
            LET Skip(j) ==
                    PParameters(ts, j, depth,
                                Append(acc, Dropped(ts, i, j, "Parameter")))
            IN Skip(SkipTo(ts, i,
                           FirstOfValue \cup {"CloseParen"} \cup Follow(depth)))

PParenthesizedArgumentsList(ts, i, depth) ==
    PParameters(ts, i + 1, depth, <<Leaf("OpenParen", ts[i])>>)

\* parser::parse / ParserAdapter::parse_with_tokens: Ok(tree), or the parse
\* error of an Err item of the lexer or of a terminal that no production and
\* no recovery accepts
Parse(ts) ==
    LET Result(r) ==
            IF r.next = Len(ts) + 1 /\ \A i \in 1..Len(ts) : ts[i].ok
            THEN [ok |-> TRUE, tree |-> r.node]
            ELSE [ok |-> FALSE,
                  tree |-> ASTError("Delimited", PosAt(ts, r.next), PosAt(ts, r.next))]
    IN Result(PDelimited(ts, 1, 0))

(***************************************************************************)
(* The language of section 4.B, as the set of indices a nonterminal can    *)
(* end at when it starts at terminal i (no recovery productions).          *)
(***************************************************************************)
RECURSIVE EndsDelimited(_, _), EndsSequenced(_, _), EndsPiped(_, _)
RECURSIVE EndsAtom(_, _), EndsValue(_, _), EndsPostfix(_, _, _)
RECURSIVE EndsParameters(_, _)

EndsCommand(ts, i) ==
    IF KindAt(ts, i) = "Literal"
    THEN {j \in (i + 1)..(Len(ts) + 1) :
             \A k \in (i + 1)..(j - 1) : KindAt(ts, k) = "Literal"}
    ELSE {}

EndsStringLiteral(ts, i) ==
    IF /\ KindAt(ts, i) = "DoubleQuote"
       /\ KindAt(ts, i + 1) = "Literal"
       /\ KindAt(ts, i + 2) = "DoubleQuote"
    THEN {i + 3}
    ELSE {}

EndsDelimited(ts, i) ==
    UNION {{j} \cup (IF KindAt(ts, j) = "SemiColon"
                     THEN EndsDelimited(ts, j + 1) ELSE {}) :
           j \in EndsSequenced(ts, i)}

EndsSequenced(ts, i) ==
    UNION {{j} \cup (IF KindAt(ts, j) = "Ampersand"
                     THEN EndsSequenced(ts, j + 1) ELSE {}) :
           j \in EndsPiped(ts, i)}

EndsPiped(ts, i) ==
    UNION {{j} \cup (IF KindAt(ts, j) = "Pipe"
                     THEN EndsPiped(ts, j + 1) ELSE {}) :
           j \in EndsAtom(ts, i)}

EndsAtom(ts, i) ==
    EndsCommand(ts, i)
        \cup (IF KindAt(ts, i) = "Dollar" THEN EndsValue(ts, i + 1) ELSE {})

\* what may follow a value that ends before terminal j; insn tells whether
\* that value is a PropertyInsn (only a PropertyInsn can be called)
EndsPostfix(ts, j, insn) ==
    {j}
      \cup (IF KindAt(ts, j) = "Dot" /\ KindAt(ts, j + 1) = "Identifier"
            THEN EndsPostfix(ts, j + 2, TRUE) ELSE {})
      \cup (IF insn /\ KindAt(ts, j) = "OpenParen"
            THEN UNION {IF KindAt(ts, k) = "CloseParen"
                        THEN EndsPostfix(ts, k + 1, FALSE) ELSE {} :
                        k \in EndsParameters(ts, j + 1)}
            ELSE {})

EndsParameters(ts, i) ==
    {i} \cup UNION {EndsParameters(ts, j) : j \in EndsValue(ts, i)}

EndsValue(ts, i) ==
    LET k == KindAt(ts, i) IN
    CASE k = "NumberLiteral" -> EndsPostfix(ts, i + 1, FALSE)
      [] k = "Identifier" -> EndsPostfix(ts, i + 1, TRUE)
      [] k = "DoubleQuote" ->
            UNION {EndsPostfix(ts, j, FALSE) : j \in EndsStringLiteral(ts, i)}
      [] k = "OpenBrace" ->
            UNION {IF KindAt(ts, j) = "CloseBrace"
                   THEN EndsPostfix(ts, j + 1, FALSE) ELSE {} :
                   j \in EndsDelimited(ts, i + 1)}
      [] OTHER -> {}

\* the terminals are a Delimited of the grammar
WellFormed(ts) == (Len(ts) + 1) \in EndsDelimited(ts, 1)

(***************************************************************************)
(* Parse tree (src/builtin/engine/parse_tree.rs).  A PTNode is             *)
(* [kind, data, origin, children, parent, position, id]; origin is the     *)
(* kind of the AST node it was built from, parent the id of the parent     *)
(* node (-1 for the root).                                                 *)
(***************************************************************************)
\* mutant: the slice runs to the end of the line
SliceToEnd(data, s, e) == SubSeq(data, s + 1, Len(data))

\* Span::slice
Slice(data, s, e) == SubSeq(data, s + 1, e)

RECURSIVE parse_node(_, _, _, _, _, _), parse_children(_, _, _, _, _, _, _)

\* mutant: the node built from an Error node keeps the kind Error
parse_node_keeping_kind(data, node, position, id, parent, root) ==
    LET Built(c) ==
            [node |-> [kind |-> node.kind,
                       data |-> Slice(data, node.start, node.end),
                       origin |-> node.kind,
                       children |-> c.children,
                       parent |-> parent,
                       root |-> IF root = -1 THEN id ELSE root,
                       position |-> position,
                       id |-> id],
             id |-> c.id]
    IN Built(parse_children(data, node.children, 1, id, id,
                            IF root = -1 THEN id ELSE root, <<>>))

\* the loop of parse_node over the children of the AST node
parse_children(data, kids, k, id, parent, root, acc) ==
    IF k > Len(kids) THEN [children |-> acc, id |-> id]
    ELSE LET Push(r) ==
                 parse_children(data, kids, k + 1, r.id + 1, parent, root,
                                Append(acc, r.node))
         IN Push(parse_node(data, kids[k], k - 1, id + 1, parent, root))

\* ParseTreeBuilder::parse_node: the node and the id it returns; parent and
\* root are ids, -1 for None: a node built without a root is its own root,
\* and the parent of a child is set when the child is pushed
parse_node(data, node, position, id, parent, root) ==
    LET kind == IF node.kind = "Error" THEN node.expected ELSE node.kind
        Built(c) ==
            [node |-> [kind |-> kind,
                       data |-> Slice(data, node.start, node.end),
                       origin |-> node.kind,
                       children |-> c.children,
                       parent |-> parent,
                       root |-> IF root = -1 THEN id ELSE root,
                       position |-> position,
                       id |-> id],
             id |-> c.id]
    IN Built(parse_children(data, node.children, 1, id, id,
                            IF root = -1 THEN id ELSE root, <<>>))

\* ParseTreeBuilder::parse_ast
parse_ast(data, ast) == parse_node(data, ast, 0, 0, -1, -1).node

RECURSIVE find_node(_, _), find_node_loop(_, _, _)

\* the loop of find_node over the children, from index k
find_node_loop(kids, k, id) ==
    IF k > Len(kids) THEN <<>>
    ELSE LET v == find_node(kids[k], id) IN
         IF v # <<>> THEN v ELSE find_node_loop(kids, k + 1, id)

\* mutant: only the node and its children are looked at
find_node_shallow(node, id) ==
    IF node.id = id THEN <<node>>
    ELSE IF \E k \in DOMAIN node.children : node.children[k].id = id
    THEN <<node.children[CHOOSE k \in DOMAIN node.children : node.children[k].id = id]>>
    ELSE <<>>

\* PTNode::find_node: <<node>> for Some(node), <<>> for None
find_node(node, id) ==
    IF node.id = id THEN <<node>> ELSE find_node_loop(node.children, 1, id)

RECURSIVE find_child_with_kind_rec(_, _), find_first_rec(_, _, _)

\* the loop of find_child_with_kind_rec over the children, from index k
find_first_rec(kids, k, kind) ==
    IF k > Len(kids) THEN <<>>
    ELSE LET v == find_child_with_kind_rec(kids[k], kind) IN
         IF v # <<>> THEN v ELSE find_first_rec(kids, k + 1, kind)

\* mutant: the origin of the node is not looked at
find_by_kind_only(node, kind) ==
    IF node.kind = kind THEN <<node>>
    ELSE find_first_rec(node.children, 1, kind)

\* PTNode::find_child_with_kind_rec: <<node>> for Some(node), <<>> for None
find_child_with_kind_rec(node, kind) ==
    IF node.kind = kind \/ (kind = "Error" /\ node.origin = "Error")
    THEN <<node>>
    ELSE find_first_rec(node.children, 1, kind)

\* PTNode::find_child_with_kind
find_child_with_kind(node, kind) ==
    IF \E k \in 1..Len(node.children) : node.children[k].kind = kind
    THEN <<node.children[CHOOSE k \in 1..Len(node.children) :
                            /\ node.children[k].kind = kind
                            /\ \A m \in 1..(k - 1) : node.children[m].kind # kind]>>
    ELSE <<>>

\* mutant: the test of the first child is inverted
left_hand_inverted(node) ==
    IF node.children[1].kind = "PropertyName" THEN <<node.children[1]>> ELSE <<>>

\* PropertyCall::left_hand
left_hand(node) ==
    IF node.children[1].kind # "PropertyName" THEN <<node.children[1]>> ELSE <<>>

\* PropertyCall::get_property_name
get_property_name(node) ==
    LET c == find_child_with_kind(node, "PropertyName") IN
    IF c = <<>> THEN <<>> ELSE <<c[1].data>>

RECURSIVE LeafText(_), LeafTextFrom(_, _)

LeafTextFrom(kids, k) ==
    IF k > Len(kids) THEN <<>> ELSE LeafText(kids[k]) \o LeafTextFrom(kids, k + 1)

\* PTNode::walk restricted to PTNode::is_leaf: the leaves' text in pre-order
LeafText(node) ==
    IF node.children = <<>> THEN node.data ELSE LeafTextFrom(node.children, 1)

(***************************************************************************)
(* The terminals of the fuzzing tests of src/parser/mod.rs.                *)
(***************************************************************************)
TERMINALS ==
    {"Ampersand", "Pipe", "SemiColon", "Dollar", "OpenParen", "CloseParen",
     "OpenBrace", "CloseBrace", "NumberLiteral", "Dot", "Comma", "Literal",
     "Identifier", "DoubleQuote"}

\* the token vectors of fuzzing(): the i-th terminal spans [i, i + 1)
FuzzTokens ==
    {[i \in 1..Len(ks) |-> [ok |-> TRUE, start |-> i - 1, kind |-> ks[i], end |-> i]] :
        ks \in SeqsUpTo(TERMINALS \cup {"Error"}, MaxTerminals)}

NoTree == ASTError("Error", 0, 0)

NoPT == parse_ast(<<>>, NoTree)

\* mutant: an Error token is handed on as an Err item
YieldErrItem(item) ==
    [ok |-> item.kind # "Error", start |-> item.start, kind |-> item.kind,
     end |-> item.end]

\* the item of Iterator::next for a recognised token: Some(Ok((start, kind, end)))
Yield(item) ==
    [ok |-> TRUE, start |-> item.start, kind |-> item.kind, end |-> item.end]

(***************************************************************************)
(* The shell process as the evaluator sees it                              *)
(* (src/runtime/execution.rs, src/builtin/engine/entities.rs).             *)
(*                                                                         *)
(* A world w is [fds, log, pipes, fate, panic, cwd, stray]: fds maps every *)
(* open file descriptor of the shell to the open file it refers to, log is *)
(* the sequence of things the evaluator did to the outside, pipes counts   *)
(* the pipes created so far, fate tells for every node what the program it *)
(* names will do, panic is set once the shell has panicked, cwd is the     *)
(* working directory, and stray lists the descriptors that were closed     *)
(* while they were not open.                                               *)
(***************************************************************************)
\* Option::None in a slot of an ExecutionConfig
None == -1

\* an open file: an end of pipe number `pipe`; pipe 0 stands for the files
\* that are no pipe of this evaluation, told apart by their role
Obj(pipe, end) == [pipe |-> pipe, end |-> end]

NoObj == Obj(0, "none")

\* what a command can do: exit with status 0, exit with status 1, fail to
\* start, or be lost so that wait itself fails
Fates == {"exit0", "exit1", "nospawn", "waiterr"}

\* an entry of the log
Event(ev, node, in, out, err) ==
    [ev |-> ev, node |-> node, stdin |-> in, stdout |-> out, stderr |-> err]

Logged(w, ev, node) ==
    [w EXCEPT !.log = Append(w.log, Event(ev, node, NoObj, NoObj, NoObj))]

\* the kernel hands out the lowest descriptor that is not open
LowestFree(fds) ==
    CHOOSE n \in 0..Cardinality(DOMAIN fds) :
        /\ n \notin DOMAIN fds
        /\ \A m \in 0..(n - 1) : m \in DOMAIN fds

Opened(w, fd, obj) == [w EXCEPT !.fds = (fd :> obj) @@ w.fds]

\* close(2); closing a descriptor that is not open fails with EBADF, which
\* the drop of a File or OwnedFd ignores: the world keeps it in `stray`
sys_close(w, fd) ==
    IF fd \in DOMAIN w.fds
    THEN [w EXCEPT !.fds = [n \in (DOMAIN w.fds) \ {fd} |-> w.fds[n]]]
    ELSE [w EXCEPT !.stray = Append(w.stray, fd)]

\* dropping an Option<OwnedFd>
drop_fd(w, slot) == IF slot = None THEN w ELSE sys_close(w, slot)

\* dup(2) (OwnedFd::try_clone): [ok, fd, w]; fails on a descriptor that is
\* not open
sys_dup(w, fd) ==
    LET At(n) == [ok |-> TRUE, fd |-> n, w |-> Opened(w, n, w.fds[fd])]
    IN IF fd \in DOMAIN w.fds THEN At(LowestFree(w.fds))
       ELSE [ok |-> FALSE, fd |-> None, w |-> w]

\* dup2(2): newfd becomes a copy of oldfd
sys_dup2(w, oldfd, newfd) ==
    IF oldfd \in DOMAIN w.fds /\ oldfd # newfd
    THEN [w EXCEPT !.fds = (newfd :> w.fds[oldfd]) @@ w.fds]
    ELSE w

\* pipe(2): [read, write, w]
sys_pipe(w) ==
    LET Made(k, r) ==
            LET Both(v) ==
                    [read |-> r, write |-> LowestFree(v.fds), w |-> Opened(v, LowestFree(v.fds), Obj(k, "w"))]
            IN Both(Opened([w EXCEPT !.pipes = k], r, Obj(k, "r")))
    IN Made(w.pipes + 1, LowestFree(w.fds))

\* the open file behind a descriptor
ObjAt(w, fd) == IF fd \in DOMAIN w.fds THEN w.fds[fd] ELSE NoObj

\* the log entry of a step on a config: the open files behind its three slots
Noted(w, ev, node, cfg) ==
    [w EXCEPT !.log =
        Append(w.log, Event(ev, node, ObjAt(w, cfg.std_in), ObjAt(w, cfg.std_out),
                            ObjAt(w, cfg.std_err)))]

(***************************************************************************)
(* ExecutionConfig: three optional owned descriptors and the blamed node.  *)
(***************************************************************************)
ExecutionConfig(in, out, err, node) ==
    [std_in |-> in, std_out |-> out, std_err |-> err, pt |-> node]

\* mutant: a dropped ExecutionConfig leaves its descriptors open
forget_config(w, cfg) == w

\* dropping an ExecutionConfig closes the descriptors it owns
drop_config(w, cfg) ==
    drop_fd(drop_fd(drop_fd(w, cfg.std_in), cfg.std_out), cfg.std_err)

\* `Some(f.try_clone()?)` of one slot
clone_slot(w, slot) ==
    IF slot = None THEN [ok |-> TRUE, fd |-> None, w |-> w] ELSE sys_dup(w, slot)

\* mutant: the clone shares the descriptors of the original
try_clone_shared(w, cfg) == [ok |-> TRUE, config |-> cfg, w |-> w]

\* ExecutionConfig::try_clone: [ok, config, w]; the clones made before a
\* failure are dropped
try_clone(w, cfg) ==
    LET Failed(v) == [ok |-> FALSE, config |-> cfg, w |-> v]
        Third(a, b, c) ==
            IF c.ok
            THEN [ok |-> TRUE,
                  config |-> ExecutionConfig(a.fd, b.fd, c.fd, cfg.pt),
                  w |-> c.w]
            ELSE Failed(drop_fd(drop_fd(c.w, b.fd), a.fd))
        Second(a, b) ==
            IF b.ok THEN Third(a, b, clone_slot(b.w, cfg.std_err))
            ELSE Failed(drop_fd(b.w, a.fd))
        First(a) ==
            IF a.ok THEN Second(a, clone_slot(a.w, cfg.std_out)) ELSE Failed(a.w)
    IN First(clone_slot(w, cfg.std_in))

\* ExecutionConfig::new_with_dup
new_with_dup(w, node, in, out, err) ==
    try_clone(w, ExecutionConfig(in, out, err, node))

(***************************************************************************)
(* Entities, results and executions.                                       *)
(***************************************************************************)
\* Argument
Argument(name, possible_types) == [name |-> name, possible_types |-> possible_types]

\* Callee: the dispatch function is named by kind
Callee(kind, arguments) == [kind |-> kind, arguments |-> arguments]

NoCallee == Callee("None", <<>>)

\* EntitiesManager::make_entity
make_entity(name) ==
    [name |-> name, implicits |-> <<>>, callee |-> NoCallee, properties |-> <<>>,
     prototype |-> "Any"]

with_callee(e, callee) == [e EXCEPT !.callee = callee]

with_property(e, name, property) ==
    [e EXCEPT !.properties = (name :> property) @@ e.properties]

with_implicit(e, type, value) ==
    [e EXCEPT !.implicits = (type :> value) @@ e.implicits]

\* Value::into_entity of a Value::String and of a Value::Number
StringEntity(s) == with_implicit(make_entity("String"), "String", s)

NumberEntity(n) == with_implicit(make_entity("Number"), "Number", n)

\* make_cd: one argument `path` that accepts a String
Cd ==
    with_callee(make_entity("Change Directory call"),
                Callee("Cd", <<Argument("path", <<"String">>)>>))

\* the global entity after initialize_universe
Global ==
    with_property([make_entity("Global") EXCEPT !.prototype = "None"],
                  <<"c", "d">>, Cd)

\* the entity every made entity has as its prototype
AnyEntity == [make_entity("Any") EXCEPT !.prototype = "None"]

\* EntitiesManager::new and initialize_universe
EntitiesManager == [global |-> Global, any |-> AnyEntity]

StatusName == <<"s", "t", "a", "t", "u", "s">>

\* FoshResult: Ok(entity), or Err with the blamed nodes and their kinds
Ok(entity) == [ok |-> TRUE, entity |-> entity, errors |-> {}]

new_single(node, kind) ==
    [ok |-> FALSE, entity |-> make_entity("none"),
     errors |-> {[node |-> node, kind |-> kind]}]

NoConfig == ExecutionConfig(None, None, None, None)

\* ExecutionState::Value
Value(result) ==
    [tag |-> "Value", result |-> result, node |-> None, config |-> NoConfig,
     args |-> <<>>]

\* Execution::Process: the child's node and the parent ends of its stdio
ProcessExecution(node, child) ==
    [tag |-> "Process", result |-> Ok(make_entity("none")), node |-> node,
     config |-> child, args |-> <<>>]

\* Execution::Pseudo: the closure owns the entities and the config it was
\* dispatched with
Pseudo(node, args, config) ==
    [tag |-> "Pseudo", result |-> Ok(make_entity("none")), node |-> node,
     config |-> config, args |-> args]

\* the evaluator has panicked: nothing is returned
Panicked(w) ==
    [st |-> Value(new_single(None, "Panic")), w |-> [w EXCEPT !.panic = TRUE]]

(***************************************************************************)
(* Dispatch of an external command (Command::infer_value, the callee       *)
(* closure) and of a pseudo execution (Callee::new_pseudo_execution).      *)
(***************************************************************************)
\* one stream of Command::spawn: with Stdio::piped() a new pipe whose end
\* `mine` stays in the shell, otherwise the stream is inherited
spawn_stream(w, piped, mine) ==
    LET Ends(p) ==
            [w |-> p.w,
             ours |-> IF mine = "w" THEN p.write ELSE p.read,
             theirs |-> IF mine = "w" THEN p.read ELSE p.write]
    IN IF piped THEN Ends(sys_pipe(w))
       ELSE [w |-> w, ours |-> None, theirs |-> None]

\* the stream the child ends up with: its end of the pipe, or the shell's own
ChildStream(w, stream, inherited) ==
    IF stream.theirs = None THEN ObjAt(w, inherited) ELSE ObjAt(w, stream.theirs)

\* std::process::Command::spawn with stdin, stdout, stderr piped where the
\* config has the slot: [ok, child, w]; child holds the shell's ends
spawn(w, node, config) ==
    LET Closed(v, a, b, c) == drop_fd(drop_fd(drop_fd(v, a.theirs), b.theirs), c.theirs)
        Started(a, b, c) ==
            IF w.fate[node] = "nospawn"
            THEN [ok |-> FALSE, child |-> NoConfig,
                  w |-> Logged(drop_fd(drop_fd(drop_fd(Closed(c.w, a, b, c),
                                                       a.ours), b.ours), c.ours),
                               "spawn_failed", node)]
            ELSE [ok |-> TRUE,
                  child |-> ExecutionConfig(a.ours, b.ours, c.ours, node),
                  w |-> Closed([c.w EXCEPT !.log =
                                   Append(c.w.log,
                                          Event("spawn", node,
                                                ChildStream(c.w, a, 0),
                                                ChildStream(c.w, b, 1),
                                                ChildStream(c.w, c, 2)))],
                               a, b, c)]
        Err(a, b) == Started(a, b, spawn_stream(b.w, config.std_err # None, "r"))
        Out(a) == Err(a, spawn_stream(a.w, config.std_out # None, "r"))
    IN Out(spawn_stream(w, config.std_in # None, "w"))

\* redir: dup2(old, new), then both Files are dropped
redir(w, old, new) ==
    IF old = None THEN drop_fd(w, new)
    ELSE IF new = None THEN sys_close(w, old)
    ELSE sys_close(sys_close(sys_dup2(w, old, new), new), old)

\* the callee of a Command: spawn, redirect stdout, stderr, stdin, and hand
\* back the process; on a failed spawn the config is dropped. When the first
\* dup2 fails, `?` leaves the closure: the two Files of redir, the rest of
\* the config and the Child are dropped, and the Child is not waited for
command_callee(w, node, config) ==
    LET Spawned(s) ==
            IF s.ok /\ w.fate[node] = "nodup" /\ config.std_out # None
            THEN [st |-> Value(new_single(node, "Execution")),
                  w |-> drop_config(drop_fd(drop_fd(sys_close(sys_close(s.w, config.std_out),
                                                              s.child.std_out),
                                                    config.std_err),
                                            config.std_in),
                                    s.child)]
            ELSE IF s.ok
            THEN [st |-> ProcessExecution(node, s.child),
                  w |-> redir(redir(redir(s.w, s.child.std_out, config.std_out),
                                    s.child.std_err, config.std_err),
                              s.child.std_in, config.std_in)]
            ELSE [st |-> Value(new_single(node, "Execution")),
                  w |-> drop_config(s.w, config)]
    IN Spawned(spawn(w, node, config))

\* ProcessExecution::execute: wait (which closes the child's stdin), then
\* the Child is dropped; [r, w]
process_execute(w, exec) ==
    [r |-> IF w.fate[exec.node] = "exit0"
           THEN Ok(with_property(make_entity("Execution result"), StatusName,
                                 NumberEntity(0)))
           ELSE new_single(exec.node, "Execution"),
     w |-> drop_fd(drop_fd(Logged(drop_fd(w, exec.config.std_in), "wait", exec.node),
                           exec.config.std_out),
                   exec.config.std_err)]

\* Entity::try_as_string: the String implicit of an entity
try_as_string(entity) == entity.implicits["String"]

\* the block of make_cd: set_current_dir(args[0]) succeeds or fails as the
\* fate of the call says; [r, w]
cd_block(w, node, pt, args) ==
    IF w.fate[node] = "exit0"
    THEN [r |-> Ok(make_entity("cd success")),
          w |-> [w EXCEPT !.cwd = try_as_string(args[1])]]
    ELSE [r |-> new_single(pt, "Execution"), w |-> w]

\* the closure of Callee::new_pseudo_execution for cd: clone stderr, stdout
\* and stdin (of the config, else of the shell), run the block, drop the
\* three Files and the config
pseudo_execute(w, exec) ==
    LET Slot(slot, inherited) == IF slot = None THEN inherited ELSE slot
        Done(e, o, i, b) ==
            [r |-> b.r,
             w |-> drop_config(drop_fd(drop_fd(drop_fd(b.w, i.fd), o.fd), e.fd),
                               exec.config)]
        Block(e, o, i) ==
            Done(e, o, i,
                 IF ~i.ok \/ ~o.ok \/ ~e.ok
                 THEN [r |-> new_single(exec.config.pt, "CannotCloneFd"), w |-> i.w]
                 ELSE cd_block(Logged(i.w, "pseudo", exec.node), exec.node,
                               exec.config.pt, exec.args))
        In(e, o) == Block(e, o, sys_dup(o.w, Slot(exec.config.std_in, 0)))
        Out(e) == In(e, sys_dup(e.w, Slot(exec.config.std_out, 1)))
    IN Out(sys_dup(w, Slot(exec.config.std_err, 2)))

\* ExecutionState::execute and Execution::execute: [r, w]
state_execute(w, st) ==
    CASE w.panic -> [r |-> st.result, w |-> w]
      [] st.tag = "Value" -> [r |-> st.result, w |-> w]
      [] st.tag = "Process" -> process_execute(w, st)
      [] st.tag = "Pseudo" -> pseudo_execute(w, st)

(***************************************************************************)
(* The evaluator (src/runtime/execution.rs).  Every execute operator takes *)
(* the world, a node of the parse tree and the ExecutionConfig of the      *)
(* caller and returns [st, w]: the ExecutionState and the world after it.  *)
(***************************************************************************)
RECURSIVE execute_delimited(_, _, _), delimited_loop(_, _, _, _)
RECURSIVE execute_sequenced(_, _, _), sequenced_loop(_, _, _, _)
RECURSIVE execute_piped(_, _, _), piped_loop(_, _, _, _, _, _, _, _)
RECURSIVE execute_command_or_function(_, _, _), execute_function(_, _, _)
RECURSIVE execute_value(_, _, _), execute_property_insn(_, _, _)
RECURSIVE property_call_execution(_, _, _), call_arguments(_, _, _, _, _)
RECURSIVE execute_braced_command(_, _, _)

\* children().iter().filter(|c| c.kind != kind)
Without(children, kind) == SelectSeq(children, LAMBDA c : c.kind # kind)

\* report(root, e): the diagnostic is printed
report(w, r) ==
    [w EXCEPT !.log =
        Append(w.log, Event("report", (CHOOSE e \in r.errors : TRUE).node,
                            NoObj, NoObj, NoObj))]

\* the children the loop of an n-ary node runs over: a node of another kind
\* is handed on as it is, which is the loop over that node alone
LoopChildren(command, kind, separator) ==
    IF command.kind # kind THEN <<command>> ELSE Without(command.children, separator)

\* mutant: the first error ends the loop, as in execute_sequenced
delimited_loop_abort(w, children, k, execution) ==
    LET Checked(x) ==
            IF x.r.ok /\ ~x.w.panic
            THEN delimited_loop(x.w, children, k + 1, execution)
            ELSE [st |-> Value(x.r), w |-> x.w]
        Ran(s) == IF k >= Len(children) THEN s ELSE Checked(state_execute(s.w, s.st))
    IN Ran(execute_sequenced(w, children[k], execution))

\* the loop of execute_delimited from the k-th child on: a child before the
\* last is executed and its error reported, the last one is handed back
delimited_loop(w, children, k, execution) ==
    LET Reported(x) ==
            delimited_loop(IF x.r.ok \/ x.w.panic THEN x.w ELSE report(x.w, x.r),
                           children, k + 1, execution)
        Ran(s) == IF k >= Len(children) THEN s ELSE Reported(state_execute(s.w, s.st))
    IN Ran(execute_sequenced(w, children[k], execution))

execute_delimited(w, command, execution) ==
    IF w.panic THEN Panicked(w)
    ELSE delimited_loop(w, LoopChildren(command, "Delimited", "SemiColon"), 1, execution)

\* the loop of execute_sequenced from the k-th child on: the error of a
\* child before the last is returned, the last one is handed back
sequenced_loop(w, children, k, execution) ==
    LET Checked(x) ==
            IF x.r.ok /\ ~x.w.panic
            THEN sequenced_loop(x.w, children, k + 1, execution)
            ELSE [st |-> Value(x.r), w |-> x.w]
        Ran(s) == IF k >= Len(children) THEN s ELSE Checked(state_execute(s.w, s.st))
    IN Ran(execute_piped(w, children[k], execution))

\* the separator that is filtered out is SemiColon here too
execute_sequenced(w, command, execution) ==
    IF w.panic THEN Panicked(w)
    ELSE sequenced_loop(w, LoopChildren(command, "Sequenced", "SemiColon"), 1, execution)

\* slot.try_clone() of the caller, or a duplicate of the stderr of the shell
\* (stderr().as_fd().try_clone_to_owned() stands on all three lines)
final_fd(w, slot) == IF slot # None THEN sys_dup(w, slot) ELSE sys_dup(w, 2)

\* mutant: the queue is emptied from the back
RECURSIVE drain_lifo(_, _, _, _, _)
drain_lifo(w, children, executions, k, last) ==
    LET At(m) ==
            LET Next1(x) == drain_lifo(x.w, children, executions, k + 1, x.r)
            IN Next1(state_execute(Logged(w, "execute", children[m].id), executions[m]))
    IN IF k > Len(executions) THEN [r |-> last, w |-> w]
       ELSE At(Len(executions) + 1 - k)

\* executions.pop_front().execute() until the queue is empty: the result of
\* the last one is kept, the others are dropped
RECURSIVE drain(_, _, _, _, _)
drain(w, children, executions, k, last) ==
    LET Next1(x) == drain(x.w, children, executions, k + 1, x.r)
    IN IF k > Len(executions) THEN [r |-> last, w |-> w]
       ELSE Next1(state_execute(Logged(w, "execute", children[k].id), executions[k]))

\* dropping the queue of executions on an early return: an execution that
\* was never executed closes what it holds
RECURSIVE drop_all(_, _, _)
drop_all(w, executions, k) ==
    IF k > Len(executions) THEN w
    ELSE drop_all(IF executions[k].tag = "Value" THEN w
                  ELSE drop_config(w, executions[k].config),
                  executions, k + 1)

\* the body of the loop of execute_piped for the i-th child
piped_loop(w, command, children, i, last_read, final_out, final_err, executions) ==
    LET Leave(x) ==
            [st |-> Value(x.r),
             w |-> drop_fd(drop_fd(drop_fd(x.w, last_read), final_out), final_err)]
        \* return Err(CannotCreatePipe): the queue, last_read (which is read
        \* once it was assigned), final_out and final_err are dropped
        Failed(w1, read) ==
            [st |-> Value(new_single(command.id, "CannotCreatePipe")),
             w |-> drop_fd(drop_fd(drop_fd(drop_all(w1, executions, 1),
                                           read), final_out), final_err)]
        \* r = execute_command_or_function(child, &config); drop(config)
        Pushed(s, config, read) ==
            IF s.w.panic THEN s ELSE
            piped_loop(drop_config(Noted(s.w, "created", children[i].id, config), config),
                       command, children, i + 1, read,
                       final_out, final_err, Append(executions, s.st))
        Created(c, read) ==
            IF ~c.ok THEN Failed(c.w, read)
            ELSE Pushed(execute_command_or_function(
                            Noted(c.w, "stage", children[i].id, c.config),
                            children[i], c.config),
                        c.config, read)
        \* before the last child: last_read = read drops the old last_read,
        \* and write is dropped at the end of the block
        Made(c, p) ==
            Created(IF i < Len(children)
                    THEN [c EXCEPT !.w = drop_fd(drop_fd(c.w, last_read), p.write)]
                    ELSE c,
                    p.read)
        Config(p) ==
            Made(new_with_dup(p.w, children[i].id, last_read, p.write, final_err), p)
    IN IF w.panic THEN Panicked(w)
       ELSE IF i > Len(children)
       THEN Leave(drain(w, children, executions, 1, Ok(make_entity("none"))))
       \* pipe() fails before a child that is not the last, the first dup of
       \* new_with_dup before the last
       ELSE IF children[i].id \in DOMAIN w.fate /\ w.fate[children[i].id] = "nopipe"
       THEN Failed(w, last_read)
       \* let (read, write) = pipe() before the last child; the last child
       \* reads last_read and writes final_out
       ELSE Config(IF i < Len(children) THEN sys_pipe(w)
                   ELSE [read |-> last_read, write |-> final_out, w |-> w])

execute_piped(w, command, execution) ==
    LET Cloned(e, o, i) ==
            IF ~e.ok \/ ~o.ok \/ ~i.ok
            THEN [st |-> Value(new_single(command.id, "CannotCloneFd")),
                  w |-> drop_fd(drop_fd(drop_fd(i.w, e.fd), o.fd), i.fd)]
            ELSE piped_loop(i.w, command, Without(command.children, "Pipe"), 1,
                            i.fd, o.fd, e.fd, <<>>)
        In(e, o) == Cloned(e, o, final_fd(o.w, execution.std_in))
        Out(e) == In(e, final_fd(e.w, execution.std_out))
    IN IF w.panic THEN Panicked(w)
       ELSE IF command.kind # "Piped"
       THEN execute_command_or_function(w, command, execution)
       ELSE Out(final_fd(Noted(w, "piped", command.id, execution), execution.std_err))

execute_command_or_function(w, command, execution) ==
    LET Cloned(c) ==
            IF ~c.ok THEN [st |-> Value(new_single(command.id, "CannotCloneFd")),
                           w |-> c.w]
            ELSE command_callee(c.w, command.id, c.config)
    IN IF w.panic THEN Panicked(w)
       ELSE IF command.kind = "Function" THEN execute_function(w, command, execution)
       ELSE IF command.kind = "Command" THEN Cloned(try_clone(w, execution))
       ELSE Panicked(w)

execute_function(w, command, execution) ==
    execute_value(w, command.children[2], execution)

\* Typed::infer_value of a StringLiteral or a NumberLiteral
infer_primitive(command) ==
    IF command.kind = "StringLiteral"
    THEN IF Len(command.data) > 1 /\ command.data[Len(command.data)] = "\""
         THEN StringEntity(SubSeq(command.data, 2, Len(command.data) - 1))
         ELSE StringEntity(SubSeq(command.data, 2, Len(command.data)))
    ELSE NumberEntity(command.data)

execute_primitive(w, command, execution) ==
    [st |-> Value(Ok(infer_primitive(command))), w |-> w]

execute_braced_command(w, command, execution) ==
    execute_delimited(w, command.children[2], execution)

execute_value(w, command, execution) ==
    IF w.panic THEN Panicked(w)
    ELSE CASE command.kind \in {"StringLiteral", "NumberLiteral"} ->
                  execute_primitive(w, command, execution)
           [] command.kind = "BracedCommand" ->
                  execute_braced_command(w, command, execution)
           [] command.kind = "PropertyInsn" ->
                  execute_property_insn(w, command, execution)
           [] command.kind = "PropertyCall" ->
                  property_call_execution(w, command, execution)
           [] OTHER -> Panicked(w)

\* entity.properties().get(name)
HasProperty(entity, name) == name \in DOMAIN entity.properties

\* mutant: a callable property is replaced by the entity a call of it returns
GetPropertyCalled(entity, name) ==
    IF entity.properties[name].callee.kind = "None"
    THEN entity.properties[name]
    ELSE make_entity("cd success")

GetProperty(entity, name) == entity.properties[name]

execute_property_insn(w, command, execution) ==
    LET Lookup(w1, entity, name) ==
            [st |-> Value(IF HasProperty(entity, name.data)
                          THEN Ok(GetProperty(entity, name.data))
                          ELSE new_single(command.id, "Semantic")),
             w |-> w1]
        \* the left entity is the global one when the node has one child
        Left(x) == IF ~x.r.ok \/ x.w.panic THEN [st |-> Value(x.r), w |-> x.w]
                   ELSE Lookup(x.w, x.r.entity,
                               command.children[IF Len(command.children) > 1 THEN 3 ELSE 1])
        Ran(s) == state_execute(s.w, s.st)
    IN IF w.panic THEN Panicked(w)
       ELSE Left(IF Len(command.children) > 1
                 THEN Ran(execute_value(w, command.children[1], execution))
                 ELSE [r |-> Ok(Global), w |-> w])

RECURSIVE call_arguments_all(_, _, _, _, _)

\* mutant: after an error of a Parameter the later Parameters are still
\* evaluated; the first error is returned
call_arguments_all(w, children, k, args, execution) ==
    LET Rest(x, rest) == [ok |-> FALSE, r |-> x.r, args |-> args, w |-> rest.w]
        Got(x) == IF x.w.panic THEN [ok |-> FALSE, r |-> x.r, args |-> args, w |-> x.w]
                  ELSE IF ~x.r.ok
                  THEN Rest(x, call_arguments_all(x.w, children, k + 1, args, execution))
                  ELSE call_arguments_all(x.w, children, k + 1,
                                          Append(args, x.r.entity), execution)
        Ran(s) == Got(state_execute(s.w, s.st))
    IN IF k > Len(children) THEN [ok |-> TRUE, r |-> Ok(make_entity("none")), args |-> args, w |-> w]
       ELSE IF children[k].kind # "Parameter"
       THEN call_arguments_all(w, children, k + 1, args, execution)
       ELSE Ran(execute_value(w, children[k].children[1], execution))

\* the loop over parenthesis.children().skip(1) that evaluates the Parameters
call_arguments(w, children, k, args, execution) ==
    LET Got(x) == IF ~x.r.ok \/ x.w.panic THEN [ok |-> FALSE, r |-> x.r, args |-> args, w |-> x.w]
                  ELSE call_arguments(x.w, children, k + 1, Append(args, x.r.entity), execution)
        Ran(s) == Got(state_execute(s.w, s.st))
    IN IF k > Len(children) THEN [ok |-> TRUE, r |-> Ok(make_entity("none")), args |-> args, w |-> w]
       ELSE IF children[k].kind # "Parameter"
       THEN call_arguments(w, children, k + 1, args, execution)
       ELSE Ran(execute_value(w, children[k].children[1], execution))

\* implicits().contains_key(it) for some accepted type
Accepts(entity, argument) ==
    \E t \in 1..Len(argument.possible_types) :
        argument.possible_types[t] \in DOMAIN entity.implicits

\* mutant: every argument passes
validate_nothing(values, args) == 0

\* validate_types: the index of the first argument with no accepted implicit
validate_types(values, args) ==
    IF \E i \in 1..Len(values) : ~Accepts(values[i], args[i])
    THEN CHOOSE i \in 1..Len(values) :
             /\ ~Accepts(values[i], args[i])
             /\ \A j \in 1..(i - 1) : Accepts(values[j], args[j])
    ELSE 0

\* (callee.callee)(entity, args, config) of a Callee made by new_pseudo_execution
pseudo_callee(w, node, args, config) ==
    [st |-> Pseudo(node, args, config), w |-> Logged(w, "dispatch", node)]

property_call_execution(w, command, execution) ==
    LET Fail(w1, node, kind) == [st |-> Value(new_single(node, kind)), w |-> w1]
        Cloned(c, args) ==
            IF ~c.ok THEN Fail(c.w, command.id, "CannotCloneFd")
            ELSE pseudo_callee(c.w, command.id, args, c.config)
        Call(w1, left, args, parenthesis) ==
            LET Typed(bad) ==
                    IF bad # 0 THEN Fail(w1, parenthesis.children[1 + bad].id, "Semantic")
                    ELSE Cloned(try_clone(w1, execution), args)
            IN IF left.callee = NoCallee THEN Fail(w1, command.id, "Semantic")
               ELSE IF Len(left.callee.arguments) # Len(args)
               THEN Fail(w1, parenthesis.id, "Semantic")
               ELSE Typed(validate_types(args, left.callee.arguments))
        Args(a, left) ==
            IF ~a.ok \/ a.w.panic THEN [st |-> Value(a.r), w |-> a.w]
            ELSE Call(a.w, left, a.args, command.children[2])
        Left(x) ==
            IF ~x.r.ok \/ x.w.panic THEN [st |-> Value(x.r), w |-> x.w]
            ELSE Args(call_arguments(x.w, command.children[2].children, 2, <<>>, execution),
                      x.r.entity)
        Ran(s) == Left(state_execute(s.w, s.st))
    IN IF w.panic THEN Panicked(w)
       ELSE Ran(execute_property_insn(w, command.children[1], execution))

\* pub fn execute
execute(w, command, execution) == execute_delimited(w, command, execution)

\* the working directory the shell is started in
HomeDir == <<"/">>

\* the shell before the first line: the three streams of the terminal
World0 ==
    [fds |-> (0 :> Obj(0, "stdin")) @@ (1 :> Obj(0, "stdout")) @@ (2 :> Obj(0, "stderr")),
     log |-> <<>>, pipes |-> 0, fate |-> <<>>, panic |-> FALSE, cwd |-> HomeDir,
     stray |-> <<>>]

VARIABLES line, tokenizer, tokens, hist, phase, input, ast, pt,
          config, world, state, result,
          entities, names, focus, inferred, sink,
          cursor, mutex, dir, refresher, annotator

\* the variables of the evaluator
evalVars == <<config, world, state, result>>

\* the variables of the editor: the entities manager, the cache of the
\* names on PATH, the node looked at, what was inferred for it and what the
\* annotators wrote
\* the variables of the key loop of the editor and of the threads that share
\* the cache: the cursor, the holder of the mutex, the file names the scan of
\* PATH meets, and where the refresher and the annotating main loop stand
sideVars == <<cursor, mutex, dir, refresher, annotator>>

editVars == <<entities, names, focus, inferred, sink, sideVars>>

vars == <<line, tokenizer, tokens, hist, phase, input, ast, pt,
          config, world, state, result,
          entities, names, focus, inferred, sink,
          cursor, mutex, dir, refresher, annotator>>

\* nothing has been evaluated
Idle ==
    /\ config = NoConfig
    /\ world = World0
    /\ state = Value(Ok(make_entity("none")))
    /\ result = Ok(make_entity("none"))

\* an inference: Some(entity), None, or a panic
Inference(tag, entity) == [tag |-> tag, entity |-> entity]

\* AnnotationsSink::new
AnnotationsSink == [completions |-> <<>>, colors |-> <<>>, hints |-> <<>>]

\* no key was read, and no thread scans PATH
Detached ==
    /\ cursor = 0
    /\ mutex = "free"
    /\ dir = <<>>
    /\ refresher = [pc |-> "done", entry |-> 1]
    /\ annotator = "idle"

\* the shipped entities, an empty cache, and nothing looked at
Unedited ==
    /\ Detached
    /\ entities = EntitiesManager
    /\ names = <<>>
    /\ focus = None
    /\ inferred = Inference("None", make_entity("none"))
    /\ sink = AnnotationsSink

Init ==
    /\ \/ /\ input = "line"
          /\ line \in Lines
          /\ tokens = <<>>
          /\ phase = "lex"
       \/ /\ input = "terminals"
          /\ line = <<>>
          /\ tokens \in FuzzTokens
          /\ phase = "lexed"
    /\ tokenizer = TokenizerNew(line)
    /\ hist = <<>>
    /\ ast = [ok |-> FALSE, tree |-> NoTree]
    /\ pt = NoPT
    /\ Idle
    /\ Unedited

\* Tokenizer::next returns Some(Ok((start, kind, end)))
TokenizerNext ==
    /\ phase = "lex"
    /\ \E r \in {TokenizerStep(tokenizer)} :
       /\ r.item.kind # "None"
       /\ tokenizer' = r.after
       /\ tokens' = Append(tokens, Yield(r.item))
       /\ hist' = Append(hist, [kind |-> r.item.kind,
                                lexeme |-> r.lexeme,
                                modeBefore |-> tokenizer.state.mode,
                                stackBefore |-> [i \in 1..Len(tokenizer.stack) |-> tokenizer.stack[i].mode],
                                modeAfter |-> r.after.state.mode,
                                stackAfter |-> [i \in 1..Len(r.after.stack) |-> r.after.stack[i].mode]])
    /\ UNCHANGED <<line, phase, input, ast, pt, evalVars, editVars>>

\* Tokenizer::next returns None
TokenizerEnd ==
    /\ phase = "lex"
    /\ \E r \in {TokenizerStep(tokenizer)} :
       /\ r.item.kind = "None"
       /\ tokenizer' = r.after
    /\ phase' = "lexed"
    /\ UNCHANGED <<line, tokens, hist, input, ast, pt, evalVars, editVars>>

\* parser::parse on the line: DelimitedParser over the Tokenizer's items
ParseLine ==
    /\ phase = "lexed"
    /\ input = "line"
    /\ ast' = Parse(tokens)
    /\ phase' = "parsed"
    /\ UNCHANGED <<line, tokenizer, tokens, hist, input, pt, evalVars, editVars>>

\* fuzzing: DelimitedParser over a vector of terminals
ParseTerminals ==
    /\ phase = "lexed"
    /\ input = "terminals"
    /\ ast' = Parse(tokens)
    /\ phase' = "parsed"
    /\ UNCHANGED <<line, tokenizer, tokens, hist, input, pt, evalVars, editVars>>

\* ParseTree::new and ParseTree::root on the tree of a line
BuildTree ==
    /\ phase = "parsed"
    /\ input = "line"
    /\ ast.ok
    /\ pt' = parse_ast(line, ast.tree)
    /\ phase' = "built"
    /\ UNCHANGED <<line, tokenizer, tokens, hist, input, ast, evalVars, editVars>>

Next == TokenizerNext \/ TokenizerEnd \/ ParseLine \/ ParseTerminals \/ BuildTree

Spec == Init /\ [][Next]_vars

(***************************************************************************)
(* The read-evaluate loop of the shell (src/main.rs) on one line.          *)
(***************************************************************************)
\* the longest chain of stages of a line
MaxStages == 3

\* the longest chain inside the braces of a nested command
MaxInner == 2

\* chains of at most n stages of S joined by ; & or |
RECURSIVE Chains(_, _)
Chains(S, n) ==
    IF n <= 1 THEN S
    ELSE Chains(S, n - 1) \cup
         {c \o op \o st : c \in Chains(S, n - 1),
                          op \in {<<";">>, <<"&">>, <<"|">>}, st \in S}

CdCall == <<"$", "c", "d", "(", "\"", "a", "\"", ")">>

\* a command and a call of the builtin
SimpleStages == {<<"a">>, CdCall}

\* the lines given to the shell: the empty line, chains of simple stages,
\* nested commands ${ chain of commands } alone and next to a command, calls
\* and property lookups that pass and that fail the checks of a call, and
\* lines that do not parse without an Error node
ExecLines ==
    LET Nested(S) ==
            S \cup {n \o op \o <<"a">> : n \in S, op \in {<<";">>, <<"&">>, <<"|">>}}
              \cup {<<"a">> \o op \o n : n \in S, op \in {<<";">>, <<"&">>, <<"|">>}}
    IN {<<>>} \cup Chains(SimpleStages, MaxStages)
       \cup Nested({<<"$", "{">> \o c \o <<"}">> : c \in Chains({<<"a">>}, MaxInner)})
       \cup {<<"$", "c", "d", "(", ")">>,
             <<"$", "c", "d", "(", "1", ")">>,
             <<"$", "c", "d", "(", "\"", "a", "\"", " ", "1", ")">>,
             <<"$", "c", "d", "(", "\"", "a", "\"", " ", "\"", "a", "\"", ")">>,
             <<"$", "c", "d", "(", "{", "a", "}", ")">>,
             <<"$", "c", "d", "(", "{", "a", "}", " ", "{", "a", "}", ")">>,
             <<"$", "c", "d", "(", "\"", "a", "\"", " ", "{", "a", "}", ")">>,
             <<"$", "c", "d">>,
             <<"$", "a">>,
             <<"$", "a", "(", ")">>,
             <<"$", "\"", "a", "\"">>,
             <<"$", "1">>,
             <<"$", "{", "a", "}", ".", "s", "t", "a", "t", "u", "s">>,
             <<"$", "{", "a", "}", ".", "s", "t", "a", "t", "u", "s", "(", ")">>,
             <<"$", "{", "a", "}", ".", "a">>}
       \cup {<<"|">>, <<"a", "|">>, <<"$">>, <<"$", "{", "a">>}

\* the items of the Tokenizer of a line, collected
RECURSIVE Tokenize(_, _)
Tokenize(tk, acc) ==
    LET Step(r) ==
            IF r.item.kind = "None" THEN acc
            ELSE Tokenize(r.after, Append(acc, Yield(r.item)))
    IN Step(TokenizerStep(tk))

\* the nodes of a tree
RECURSIVE NodesOf(_)
NodesOf(node) ==
    {node} \cup UNION {NodesOf(node.children[k]) : k \in 1..Len(node.children)}

\* what the outside can answer to the nodes of a line that run something: a
\* program exits with 0 or 1, cannot be started, or cannot be waited for;
\* the set_current_dir of cd succeeds or fails
FateMaps(tree) ==
    LET Maps(run) ==
            {f \in [{n.id : n \in run} -> Fates] :
                \A n \in run : n.kind = "Command" \/ f[n.id] \in {"exit0", "exit1"}}
    IN Maps({n \in NodesOf(tree) : n.kind \in {"Command", "PropertyCall"}})

ExecInit ==
    /\ input = "main"
    /\ line \in ExecLines
    /\ tokens = <<>>
    /\ phase = "prompt"
    /\ tokenizer = TokenizerNew(line)
    /\ hist = <<>>
    /\ ast = [ok |-> FALSE, tree |-> NoTree]
    /\ pt = NoPT
    /\ Idle
    /\ Unedited

\* if line.is_empty() { continue; }
SkipEmpty ==
    /\ phase = "prompt"
    /\ line = <<>>
    /\ phase' = "skipped"
    /\ UNCHANGED <<line, tokenizer, tokens, hist, input, ast, pt, evalVars, editVars>>

\* parse_line(&line): the tokens, the tree and the parse tree of the line
ReadLine ==
    /\ phase = "prompt"
    /\ line # <<>>
    /\ \E ts \in {Tokenize(tokenizer, <<>>)} :
       /\ tokens' = ts
       /\ \E a \in {Parse(ts)} :
          /\ ast' = a
          /\ pt' = parse_ast(line, a.tree)
    /\ phase' = "tree"
    /\ UNCHANGED <<line, tokenizer, hist, input, evalVars, editVars>>

\* the tree holds an Error node: "Syntax error", nothing is evaluated
SyntaxError ==
    /\ phase = "tree"
    /\ find_child_with_kind_rec(pt, "Error") # <<>>
    /\ phase' = "rejected"
    /\ UNCHANGED <<line, tokenizer, tokens, hist, input, ast, pt, evalVars, editVars>>

\* execute(tree.root(), &config) with the three slots None
Execute ==
    /\ phase = "tree"
    /\ find_child_with_kind_rec(pt, "Error") = <<>>
    /\ \E f \in FateMaps(pt) :
       \E c \in {ExecutionConfig(None, None, None, pt.id)} :
       \E r \in {execute([world EXCEPT !.fate = f], pt, c)} :
          /\ config' = c
          /\ state' = r.st
          /\ world' = r.w
          /\ phase' = IF r.w.panic THEN "panicked" ELSE "returned"
    /\ UNCHANGED <<line, tokenizer, tokens, hist, input, ast, pt, result, editVars>>

\* .execute() on the returned state; the entity or the report is printed
Finish ==
    /\ phase = "returned"
    /\ \E x \in {state_execute(world, state)} :
       /\ result' = x.r
       /\ world' = IF x.r.ok THEN x.w ELSE report(x.w, x.r)
    /\ phase' = "done"
    /\ UNCHANGED <<line, tokenizer, tokens, hist, input, ast, pt, config, state,
                   editVars>>

ExecNext == SkipEmpty \/ ReadLine \/ SyntaxError \/ Execute \/ Finish

ExecSpec == ExecInit /\ [][ExecNext]_vars

\* the end of an iteration of the loop of main: the tree, the config and the
\* result of the line are dropped; the process keeps its descriptors and its
\* working directory, and the log starts again for the next line
Continue ==
    /\ phase \in {"skipped", "rejected", "done"}
    /\ input = "main"
    /\ line' = <<>>
    /\ tokenizer' = TokenizerNew(<<>>)
    /\ tokens' = <<>>
    /\ hist' = <<>>
    /\ ast' = [ok |-> FALSE, tree |-> NoTree]
    /\ pt' = NoPT
    /\ config' = NoConfig
    /\ world' = [world EXCEPT !.log = <<>>, !.fate = <<>>, !.pipes = 0,
                               !.stray = <<>>]
    /\ state' = Value(Ok(make_entity("none")))
    /\ result' = Ok(make_entity("none"))
    /\ phase' = "await"
    /\ UNCHANGED <<input, editVars>>

\* tui.next_line() returns the next line
NextLine ==
    /\ phase = "await"
    /\ \E l \in ExecLines :
       /\ line' = l
       /\ tokenizer' = TokenizerNew(l)
    /\ phase' = "prompt"
    /\ UNCHANGED <<tokens, hist, input, ast, pt, evalVars, editVars>>

\* tui.next_line() returns None: break
Eof ==
    /\ phase = "await"
    /\ phase' = "ended"
    /\ UNCHANGED <<line, tokenizer, tokens, hist, input, ast, pt, evalVars, editVars>>

LoopNext ==
    SkipEmpty \/ ReadLine \/ SyntaxError \/ Execute \/ Finish \/ Continue
        \/ NextLine \/ Eof

\* the shell over any number of lines
LoopSpec == ExecInit /\ [][LoopNext]_vars

\* the lines of the shell whose system calls can fail: chains of stages
FailLines == Chains(SimpleStages, MaxStages)

\* the stages of the pipelines of a tree that are commands
StageCommands(tree) ==
    {n \in NodesOf(tree) :
        /\ n.kind = "Command"
        /\ \E p \in NodesOf(tree) :
              /\ p.kind = "Piped"
              /\ \E k \in DOMAIN p.children : p.children[k] = n}

\* the answers of the outside when system calls can fail as well: before a
\* stage pipe() or the dup of new_with_dup fails with EMFILE ("nopipe"), or
\* the dup2 after its spawn fails ("nodup")
FailMaps(tree) ==
    LET Maps(run) ==
            {f \in [{n.id : n \in run} -> Fates \cup {"nopipe", "nodup"}] :
                \A n \in run :
                    /\ n.kind = "Command" \/ f[n.id] \in {"exit0", "exit1"}
                    /\ f[n.id] \in {"nopipe", "nodup"} => n \in StageCommands(tree)}
    IN Maps({n \in NodesOf(tree) : n.kind \in {"Command", "PropertyCall"}})

FailInit ==
    /\ input = "main"
    /\ line \in FailLines
    /\ tokens = <<>>
    /\ phase = "prompt"
    /\ tokenizer = TokenizerNew(line)
    /\ hist = <<>>
    /\ ast = [ok |-> FALSE, tree |-> NoTree]
    /\ pt = NoPT
    /\ Idle
    /\ Unedited

\* execute(tree.root(), &config) in a process whose system calls can fail
ExecuteFailing ==
    /\ phase = "tree"
    /\ find_child_with_kind_rec(pt, "Error") = <<>>
    /\ \E f \in FailMaps(pt) :
       \E c \in {ExecutionConfig(None, None, None, pt.id)} :
       \E r \in {execute([world EXCEPT !.fate = f], pt, c)} :
          /\ config' = c
          /\ state' = r.st
          /\ world' = r.w
          /\ phase' = IF r.w.panic THEN "panicked" ELSE "returned"
    /\ UNCHANGED <<line, tokenizer, tokens, hist, input, ast, pt, result, editVars>>

FailNext == ReadLine \/ ExecuteFailing \/ Finish

\* one line of the shell, system calls failing or not
FailSpec == FailInit /\ [][FailNext]_vars

(***************************************************************************)
(* Inference (impl Typed in src/parser/ast.rs) and the annotators, run by  *)
(* the line editor on the tree of the line typed so far.                   *)
(***************************************************************************)
\* the kinds downcast_to_typed has a Typed for
TypedKinds ==
    {"StringLiteral", "NumberLiteral", "Function", "PropertyCall", "Delimited",
     "Piped", "Sequenced", "BracedCommand", "Command", "PropertyInsn",
     "PropertyName", "Parameter"}

PathName == <<"p", "a", "t", "h">>

\* callee.result_prototype applied to the receiver and the inferred
\* arguments: only the callee of cd has one
result_prototype(callee, left, args) ==
    IF callee.kind = "Cd"
    THEN Inference("Some", with_property(make_entity("cd success"), PathName,
                                         StringEntity(<<"k", "e", "k">>)))
    ELSE Inference("None", make_entity("none"))

\* mutant: a name the entity does not have is looked up in its prototype
properties_get_inherited(entity, name) ==
    IF name \in DOMAIN entity.properties
    THEN Inference("Some", entity.properties[name])
    ELSE IF entity.prototype = "Any" /\ name \in DOMAIN entities.any.properties
    THEN Inference("Some", entities.any.properties[name])
    ELSE Inference("None", make_entity("none"))

\* HashMap::get on the properties of an entity
properties_get(entity, name) ==
    IF name \in DOMAIN entity.properties
    THEN Inference("Some", entity.properties[name])
    ELSE Inference("None", make_entity("none"))

\* Typed::infer_value of the impl for `kind`, applied to the node node; an
\* index past the children, an unwrap of None and todo!() are panics
RECURSIVE infer_value(_, _, _), infer_arguments(_, _, _)

\* the inferences of the typed children of an argument list, from child k:
\* "Panic" if one of them panics
infer_arguments(manager, children, k) ==
    LET Rest(v) ==
            IF v.tag = "Panic" THEN v ELSE infer_arguments(manager, children, k + 1)
    IN IF k > Len(children) THEN Inference("None", make_entity("none"))
       ELSE IF children[k].kind \notin TypedKinds
       THEN infer_arguments(manager, children, k + 1)
       ELSE Rest(infer_value(manager, children[k].kind, children[k]))

infer_value(manager, kind, node) ==
    LET Nothing == Inference("None", make_entity("none"))
        Panic == Inference("Panic", make_entity("none"))
        \* node.children()[i] of downcast_to_typed(..).unwrap().infer_value(..)
        Unwrapped(i) ==
            IF i > Len(node.children) THEN Panic
            ELSE IF node.children[i].kind \notin TypedKinds THEN Panic
            ELSE infer_value(manager, node.children[i].kind, node.children[i])
        Called(left, values) ==
            IF values.tag = "Panic" THEN values
            ELSE result_prototype(left.entity.callee, left.entity, values)
        Call(left) ==
            IF left.tag # "Some" THEN left
            ELSE IF left.entity.callee = NoCallee THEN Nothing
            ELSE IF result_prototype(left.entity.callee, left.entity, Nothing).tag = "None"
            THEN Nothing
            ELSE IF Len(node.children) < 2 THEN Panic
            ELSE Called(left, infer_arguments(manager, node.children[2].children, 1))
        Insn(left) ==
            IF left.tag = "Panic" \/ Len(node.children) = 1 THEN left
            ELSE IF left.tag = "None" THEN Nothing
            ELSE IF Len(node.children) < 3 THEN Panic
            ELSE properties_get(left.entity, node.children[3].data)
        Discarded(v) == IF v.tag = "Panic" THEN v ELSE Nothing
    IN CASE kind = "Parameter" ->
                IF node.children = <<>> THEN Panic
                ELSE IF node.children[1].kind \notin TypedKinds THEN Nothing
                ELSE infer_value(manager, node.children[1].kind, node)
         [] kind \in {"StringLiteral", "NumberLiteral"} ->
                IF node.data = <<>> THEN Panic
                ELSE Inference("Some", infer_primitive([node EXCEPT !.kind = kind]))
         [] kind = "Function" ->
                IF Len(node.children) < 2 THEN Panic
                ELSE IF node.children[2].kind \notin TypedKinds THEN Nothing
                ELSE Discarded(infer_value(manager, node.children[2].kind, node.children[2]))
         [] kind = "PropertyCall" -> Call(Unwrapped(1))
         [] kind = "PropertyName" -> properties_get(manager.global, node.data)
         [] kind = "PropertyInsn" -> Insn(Unwrapped(1))
         [] kind = "BracedCommand" -> Unwrapped(2)
         [] kind \in {"Delimited", "Sequenced", "Piped"} -> Panic
         [] kind = "Command" ->
                IF Len(node.children) < 2 THEN Panic
                ELSE Inference("Some", with_callee(make_entity(node.data),
                                                   Callee("Command", <<>>)))

(***************************************************************************)
(* The line editor: the line typed so far is parsed, and a node of its     *)
(* tree is handed to inference or to an annotator.                         *)
(***************************************************************************)
\* the lines typed into the editor: commands, values, property lookups and
\* calls, complete and half typed
EditLines ==
    {<<"a">>, <<"a", "a">>, <<"a", ";", "a">>, <<"a", "|", "a">>, <<"c">>,
     <<"b">>, <<"$">>, <<"$", "1">>, <<"$", "\"", "a", "\"">>, <<"$", "\"", "a">>,
     <<"$", "c">>, <<"$", "c", "d">>, <<"$", "a">>, <<"$", " ", "c">>,
     CdCall, <<"$", "c", "d", "(", ")">>, <<"$", "c", "d", "(", "1", ")">>,
     <<"$", "c", "(">>, <<"$", "c", "d", "(", "c", "d", ")">>,
     <<"$", "c", "d", "(", "{", "a", "}", ")">>,
     <<"$", "c", "d", "(", "c", "d", "(", ")", ")">>,
     CdCall \o <<".">>, CdCall \o <<".", "p">>, CdCall \o <<".">> \o PathName,
     CdCall \o <<".", "c">>, CdCall \o <<".", "c", "(", ")">>,
     CdCall \o <<".">> \o PathName \o <<".", "a">>,
     <<"$", "c", "d", ".", "a">>, <<"$", "a", ".", "a">>,
     <<"$", "\"", "a", "\"", ".", "a">>, <<"$", "1", ".", "a">>,
     <<"$", "{", "a", "}">>, <<"$", "{", "a", "}", ".", "a">>,
     <<"$", "{", "a", "}", ".", "c", "(", ")">>,
     <<"$", "{", "a", ";", "a", "}">>, <<"$", "{", "a", ";", "a", "}", ".", "a">>,
     <<"$", "{", "a", "|", "a", "}">>, <<"$", "{", "a", "&", "a", "}">>,
     <<"$", "{", "$", "1", "}">>,
     <<"$", "{", "a", "}", ".">> \o StatusName,
     <<"$", "{", "a", "}", ".">> \o StatusName \o <<".", "a">>}

\* the entities a start-up can leave behind: the shipped ones, and the
\* shipped ones after any().add_property("a", ..)
Universes ==
    {EntitiesManager,
     [EntitiesManager EXCEPT
         !.any = with_property(AnyEntity, <<"a">>, StringEntity(<<"a">>))]}

EditInit ==
    /\ input = "edit"
    /\ line \in EditLines
    /\ tokens = <<>>
    /\ phase = "prompt"
    /\ tokenizer = TokenizerNew(line)
    /\ hist = <<>>
    /\ ast = [ok |-> FALSE, tree |-> NoTree]
    /\ pt = NoPT
    /\ Idle
    /\ Detached
    /\ entities \in Universes
    /\ names = <<>>
    /\ focus = None
    /\ inferred = Inference("None", make_entity("none"))
    /\ sink = AnnotationsSink

\* infer_value on a node of the tree that has a Typed
Infer ==
    /\ phase = "tree"
    /\ input = "edit"
    /\ \E n \in NodesOf(pt) :
       /\ n.kind \in TypedKinds
       /\ focus' = n.id
       /\ inferred' = infer_value(entities, n.kind, n)
    /\ phase' = "inferred"
    /\ UNCHANGED <<line, tokenizer, tokens, hist, input, ast, pt, evalVars,
                   entities, names, sink, sideVars>>

RECURSIVE find_parent_with_kind(_, _, _)

\* PTNode::find_parent_with_kind: the node itself or its nearest ancestor of
\* the kind; <<node>> for Some(node), <<>> for None.  The parent pointer is
\* followed through the id the builder stored.
find_parent_with_kind(root, node, kind) ==
    IF node.kind = kind THEN <<node>>
    ELSE IF node.parent = -1 THEN <<>>
    ELSE find_parent_with_kind(root,
                               CHOOSE p \in NodesOf(root) : p.id = node.parent,
                               kind)

\* str::starts_with
starts_with(x, name) ==
    Len(name) <= Len(x) /\ SubSeq(x, 1, Len(name)) = name

\* AnnotationsSink::add_error with Some(message)
add_error(s, message) ==
    [s EXCEPT !.hints = Append(@, message), !.colors = Append(@, "Error")]

\* AnnotationsSink::add_completion
add_completion(s, completion) ==
    [s EXCEPT !.completions = Append(@, completion)]

\* EntityAnnotator::find_left_hand_entity: tag Ok with the entity, Err, or
\* Panic for the unwrap of None.  ASTKind has no CallChain, so no node of a
\* tree has that kind and the first branch (the left hand of a call chain,
\* Err when it cannot be inferred) is never taken.
find_left_hand_entity(manager, root, node) ==
    LET Of(call) ==
            IF call = <<>> THEN Inference("Panic", make_entity("none"))
            ELSE IF call[1].parent # -1
                    /\ (CHOOSE p \in NodesOf(root) : p.id = call[1].parent).kind
                           = "CallChain"
            THEN Inference("Err", make_entity("none"))
            ELSE Inference("Ok", manager.global)
    IN Of(find_parent_with_kind(root, node, "PropertyCall"))

RECURSIVE add_completions(_, _, _, _)

\* the loop of annotate_property_name over properties.keys(), in the order
\* keys the map happens to yield them
add_completions(s, keys, k, name) ==
    IF k > Len(keys) THEN s
    ELSE add_completions(IF starts_with(keys[k], name)
                         THEN add_completion(s, keys[k]) ELSE s,
                         keys, k + 1, name)

\* EntityAnnotator::annotate_property_name
annotate_property_name(left_entity, node, s, keys) ==
    IF left_entity.tag = "Panic" THEN [panic |-> TRUE, sink |-> s]
    ELSE IF left_entity.tag = "Err" THEN [panic |-> FALSE, sink |-> s]
    ELSE [panic |-> FALSE,
          sink |-> add_completions(
                       IF node.data \notin DOMAIN left_entity.entity.properties
                       THEN add_error(s, <<"No such property">>)
                       ELSE s,
                       keys, 1, node.data)]

\* the orders in which a HashMap can yield the keys of the set
KeyOrders(set) ==
    {f \in [1..Cardinality(set) -> set] :
        \A i, j \in 1..Cardinality(set) : f[i] = f[j] => i = j}

\* EntityAnnotator::annotate on a PropertyName node or on a node of a kind
\* it has nothing for (the annotator of arguments is left out)
AnnotateEntity ==
    /\ phase = "tree"
    /\ input = "edit"
    /\ \E n \in NodesOf(pt) :
       /\ n.kind \notin {"StringLiteral", "NumberLiteral", "Identifier"}
       /\ focus' = n.id
       /\ \E left \in {find_left_hand_entity(entities, pt, n)} :
          \E keys \in KeyOrders(IF left.tag = "Ok"
                                THEN DOMAIN left.entity.properties ELSE {}) :
          \E r \in {IF n.kind = "PropertyName"
                    THEN annotate_property_name(left, n, AnnotationsSink, keys)
                    ELSE [panic |-> FALSE, sink |-> AnnotationsSink]} :
             /\ sink' = r.sink
             /\ phase' = IF r.panic THEN "panicked" ELSE "annotated"
    /\ UNCHANGED <<line, tokenizer, tokens, hist, input, ast, pt, evalVars,
                   entities, names, inferred, sideVars>>

RECURSIVE path_matches_unbounded(_, _, _, _)

\* mutant: the loop does not stop at five names
path_matches_unbounded(cache, k, text, pushed) ==
    IF k > Len(cache) THEN pushed
    ELSE path_matches_unbounded(cache, k + 1, text,
                                IF starts_with(cache[k], text)
                                THEN Append(pushed, cache[k]) ELSE pushed)

RECURSIVE path_matches(_, _, _, _)

\* the loop of PathAnnotator::annotate over the cache from index k: a name
\* that starts with the text is pushed, and the loop breaks once five names
\* have been pushed
path_matches(cache, k, text, pushed) ==
    IF k > Len(cache) \/ Len(pushed) >= 5 THEN pushed
    ELSE path_matches(cache, k + 1, text,
                      IF starts_with(cache[k], text)
                      THEN Append(pushed, cache[k]) ELSE pushed)

\* PathAnnotator::annotate
path_annotate(cache, node, s) ==
    IF node.kind # "CommandName" THEN s
    ELSE [s EXCEPT !.completions = @ \o path_matches(cache, 1, node.data, <<>>)]

MaxNames == 6

\* the file names update_cache has pushed by the time of a call
NameCaches == SeqsUpTo({<<"a">>, <<"a", "a">>}, MaxNames)

\* PathAnnotator::annotate on a node of the tree, under the lock of the cache
AnnotatePath ==
    /\ phase = "tree"
    /\ input = "edit"
    /\ \E n \in NodesOf(pt) :
       \E cache \in NameCaches :
          /\ focus' = n.id
          /\ names' = cache
          /\ sink' = path_annotate(cache, n, AnnotationsSink)
    /\ phase' = "completed"
    /\ UNCHANGED <<line, tokenizer, tokens, hist, input, ast, pt, evalVars,
                   entities, inferred, sideVars>>

EditNext ==
    ReadLine \/ Infer \/ AnnotateEntity \/ AnnotatePath \/ Execute \/ Finish

EditSpec == EditInit /\ [][EditNext]_vars

(***************************************************************************)
(* The cache of PathAnnotator (src/builtin/annotator.rs): the thread       *)
(* spawned by PathAnnotator::new runs update_cache, the main loop calls    *)
(* annotate; both take the mutex around the Vec of names.                  *)
(***************************************************************************)
\* the files the scan of PATH can meet
MaxEntries == 3

\* mutant: the name is put in front of the cache
vec_push_front(v, x) == <<x>> \o v

\* Vec::push
vec_push(v, x) == Append(v, x)

\* after PathAnnotator::new: the cache is empty, the thread is about to scan
\* the files of `dir`, and the main loop has the tree of a line
PathInit ==
    /\ input = "path"
    /\ line \in {<<"a">>, <<"a", "a">>}
    /\ tokenizer = TokenizerNew(line)
    /\ tokens = Tokenize(tokenizer, <<>>)
    /\ phase = "tree"
    /\ hist = <<>>
    /\ ast = Parse(tokens)
    /\ pt = parse_ast(line, ast.tree)
    /\ Idle
    /\ entities = EntitiesManager
    /\ names = <<>>
    /\ focus = None
    /\ inferred = Inference("None", make_entity("none"))
    /\ sink = AnnotationsSink
    /\ cursor = 0
    /\ mutex = "free"
    /\ dir \in SeqsUpTo({<<"a">>, <<"a", "a">>, <<"b">>}, MaxEntries)
    /\ refresher = [pc |-> "scan", entry |-> 1]
    /\ annotator = "idle"

\* update_cache meets a file: weak.lock()
RefresherLock ==
    /\ input = "path"
    /\ refresher.pc = "scan"
    /\ refresher.entry <= Len(dir)
    /\ mutex = "free"
    /\ mutex' = "refresher"
    /\ refresher' = [refresher EXCEPT !.pc = "locked"]
    /\ UNCHANGED <<line, tokenizer, tokens, hist, phase, input, ast, pt, evalVars,
                   entities, names, focus, inferred, sink, cursor, dir, annotator>>

\* names.push(name), and the guard is dropped at the end of the block
RefresherPush ==
    /\ input = "path"
    /\ refresher.pc = "locked"
    /\ names' = vec_push(names, dir[refresher.entry])
    /\ mutex' = "free"
    /\ refresher' = [pc |-> "scan", entry |-> refresher.entry + 1]
    /\ UNCHANGED <<line, tokenizer, tokens, hist, phase, input, ast, pt, evalVars,
                   entities, focus, inferred, sink, cursor, dir, annotator>>

\* the loops of update_cache are over: the thread ends
RefresherExit ==
    /\ input = "path"
    /\ refresher.pc = "scan"
    /\ refresher.entry > Len(dir)
    /\ refresher' = [refresher EXCEPT !.pc = "done"]
    /\ UNCHANGED <<line, tokenizer, tokens, hist, phase, input, ast, pt, evalVars,
                   entities, names, focus, inferred, sink, cursor, mutex, dir,
                   annotator>>

\* PathAnnotator::annotate on a CommandName: self.names.lock()
AnnotateLock ==
    /\ input = "path"
    /\ annotator = "idle"
    /\ mutex = "free"
    /\ \E n \in {m \in NodesOf(pt) : m.kind = "CommandName"} : focus' = n.id
    /\ mutex' = "main"
    /\ annotator' = "locked"
    /\ UNCHANGED <<line, tokenizer, tokens, hist, phase, input, ast, pt, evalVars,
                   entities, names, inferred, sink, cursor, dir, refresher>>

\* the rest of annotate: the names are read, the completions pushed, and the
\* guard is dropped when annotate returns
AnnotateRead ==
    /\ input = "path"
    /\ annotator = "locked"
    /\ \E n \in {m \in NodesOf(pt) : m.id = focus} :
          sink' = path_annotate(names, n, AnnotationsSink)
    /\ mutex' = "free"
    /\ annotator' = "idle"
    /\ UNCHANGED <<line, tokenizer, tokens, hist, phase, input, ast, pt, evalVars,
                   entities, names, focus, inferred, cursor, dir, refresher>>

PathNext ==
    RefresherLock \/ RefresherPush \/ RefresherExit \/ AnnotateLock \/ AnnotateRead

\* the two threads; a thread that can run does run, and the refresher gets
\* the mutex in the end, since the main loop holds it only inside annotate
\* and waits for a key between two calls
PathSpec ==
    /\ PathInit
    /\ [][PathNext]_vars
    /\ WF_vars(RefresherPush)
    /\ WF_vars(RefresherExit)
    /\ WF_vars(AnnotateRead)
    /\ SF_vars(RefresherLock)

(***************************************************************************)
(* The key loop of the line editor (Tui::next_line_interactive in          *)
(* src/ui/tui.rs).  The line is a String, a sequence of the bytes of its   *)
(* UTF-8 encoding, and the cursor is an index into these bytes.  The       *)
(* redrawing of the line after a key changes neither of them.              *)
(***************************************************************************)
\* the bytes the line may grow to
MaxBytes == 4

\* the chars a key can give: two of one byte and U+00E9, which has two
KeyChars == {"a", "b", "U+00E9"}

\* char::encode_utf8
encode_utf8(c) == IF c = "U+00E9" THEN <<"C3", "A9">> ELSE <<c>>

\* str::is_char_boundary: the start, the end, or a byte that is not a
\* continuation byte
is_char_boundary(s, index) ==
    \/ index = 0
    \/ index = Len(s)
    \/ index > 0 /\ index < Len(s) /\ s[index + 1] # "A9"

\* String::insert: [ok, s]; panics unless idx is a char boundary
string_insert(s, idx, c) ==
    IF is_char_boundary(s, idx)
    THEN [ok |-> TRUE, s |-> SubSeq(s, 1, idx) \o encode_utf8(c) \o SubSeq(s, idx + 1, Len(s))]
    ELSE [ok |-> FALSE, s |-> s]

\* String::remove: [ok, s]; takes out the whole char that starts at idx and
\* panics when idx is no char boundary or the end of the string
string_remove(s, idx) ==
    LET Width == IF s[idx + 1] = "C3" THEN 2 ELSE 1
    IN IF idx < Len(s) /\ is_char_boundary(s, idx)
       THEN [ok |-> TRUE, s |-> SubSeq(s, 1, idx) \o SubSeq(s, idx + Width + 1, Len(s))]
       ELSE [ok |-> FALSE, s |-> s]

KeysInit ==
    /\ input = "keys"
    /\ line = <<>>
    /\ tokens = <<>>
    /\ phase = "typing"
    /\ tokenizer = TokenizerNew(line)
    /\ hist = <<>>
    /\ ast = [ok |-> FALSE, tree |-> NoTree]
    /\ pt = NoPT
    /\ Idle
    /\ Unedited

\* Key::Ctrl('c'): Err(Interrupted) is returned
KeyCtrlC ==
    /\ input = "keys"
    /\ phase = "typing"
    /\ phase' = "interrupted"
    /\ UNCHANGED <<line, tokenizer, tokens, hist, input, ast, pt, evalVars, editVars>>

\* Key::Char('\n'): Ok(Some(line)) is returned
KeyEnter ==
    /\ input = "keys"
    /\ phase = "typing"
    /\ phase' = "committed"
    /\ UNCHANGED <<line, tokenizer, tokens, hist, input, ast, pt, evalVars, editVars>>

\* Key::Char(c): line.insert(cursor, c); cursor += 1
KeyChar ==
    /\ input = "keys"
    /\ phase = "typing"
    /\ \E c \in KeyChars :
       /\ Len(line) + Len(encode_utf8(c)) <= MaxBytes
       /\ \E r \in {string_insert(line, cursor, c)} :
          /\ line' = r.s
          /\ cursor' = IF r.ok THEN cursor + 1 ELSE cursor
          /\ phase' = IF r.ok THEN "typing" ELSE "panicked"
    /\ UNCHANGED <<tokenizer, tokens, hist, input, ast, pt, evalVars,
                   entities, names, focus, inferred, sink,
                   mutex, dir, refresher, annotator>>

\* Key::Right
KeyRight ==
    /\ input = "keys"
    /\ phase = "typing"
    /\ cursor' = IF cursor < Len(line) THEN cursor + 1 ELSE cursor
    /\ UNCHANGED <<line, tokenizer, tokens, hist, phase, input, ast, pt, evalVars,
                   entities, names, focus, inferred, sink,
                   mutex, dir, refresher, annotator>>

\* Key::Left
KeyLeft ==
    /\ input = "keys"
    /\ phase = "typing"
    /\ cursor' = IF cursor > 0 THEN cursor - 1 ELSE cursor
    /\ UNCHANGED <<line, tokenizer, tokens, hist, phase, input, ast, pt, evalVars,
                   entities, names, focus, inferred, sink,
                   mutex, dir, refresher, annotator>>

\* Key::Backspace: line.remove(cursor - 1); cursor -= 1
KeyBackspace ==
    /\ input = "keys"
    /\ phase = "typing"
    /\ \E r \in {IF cursor > 0 THEN string_remove(line, cursor - 1)
                  ELSE [ok |-> TRUE, s |-> line]} :
       /\ line' = r.s
       /\ cursor' = IF cursor > 0 /\ r.ok THEN cursor - 1 ELSE cursor
       /\ phase' = IF r.ok THEN "typing" ELSE "panicked"
    /\ UNCHANGED <<tokenizer, tokens, hist, input, ast, pt, evalVars,
                   entities, names, focus, inferred, sink,
                   mutex, dir, refresher, annotator>>

\* the keys of stdin end: panic!("Unreachable")
KeysEnd ==
    /\ input = "keys"
    /\ phase = "typing"
    /\ phase' = "unreachable"
    /\ UNCHANGED <<line, tokenizer, tokens, hist, input, ast, pt, evalVars, editVars>>

KeysNext ==
    KeyCtrlC \/ KeyEnter \/ KeyChar \/ KeyRight \/ KeyLeft \/ KeyBackspace
        \/ KeysEnd

\* one call of next_line_interactive
KeysSpec == KeysInit /\ [][KeysNext]_vars

(***************************************************************************)
(* Properties.                                                             *)
(***************************************************************************)

\* C1: parsing is total.  For every line, and for every sequence of terminals
\* of the full terminal set including Error, the Delimited parser returns
\* Ok(tree), never a parse error.
C1_ParseTotal == phase \in {"parsed", "built"} => ast.ok

\* a sequence of terminals that holds an Error terminal and a stray closing
\* brace has been parsed
C1_Witness ==
    /\ phase = "parsed"
    /\ input = "terminals"
    /\ \E i, j \in 1..Len(tokens) :
          tokens[i].kind = "Error" /\ tokens[j].kind = "CloseBrace"
    /\ ast.ok

C3_TokenizerNeverFails ==
    input = "line" =>
        /\ \A i \in 1..Len(tokens) :
              /\ tokens[i].ok
              /\ tokens[i].start < tokens[i].end
              /\ tokens[i].end <= Len(line)
              /\ (i > 1 => tokens[i - 1].end <= tokens[i].start)
              /\ (tokens[i].kind = "Error" => tokens[i].end = tokens[i].start + 1)
        /\ Len(tokens) <= Len(line)
        /\ (phase # "lex" =>
               \A p \in 1..Len(line) :
                   \/ \E i \in 1..Len(tokens) :
                         tokens[i].start < p /\ p <= tokens[i].end
                   \/ line[p] \in WhitespaceChars)

\* the iterator is exhausted and an Error token was followed by another token
C3_Witness ==
    /\ phase = "lexed"
    /\ input = "line"
    /\ \E i \in 1..(Len(tokens) - 1) :
          tokens[i].kind = "Error" /\ tokens[i + 1].kind # "Error"

\* C4: the tokenizer starts in Top mode with an empty stack, and a `$`
\* emitted in Top mode makes Function the current mode and leaves the stack
\* as it was.
C4_DollarSwitchesToFunction ==
    /\ (hist = <<>> /\ phase = "lex" =>
            tokenizer.state.mode = "TopLevel" /\ tokenizer.stack = <<>>)
    /\ (hist # <<>> =>
            hist[1].modeBefore = "TopLevel" /\ hist[1].stackBefore = <<>>)
    /\ \A i \in 1..Len(hist) :
          hist[i].kind = "Dollar" /\ hist[i].modeBefore = "TopLevel" =>
              /\ hist[i].modeAfter = "FunctionLevel"
              /\ hist[i].stackAfter = hist[i].stackBefore

\* a `$` was emitted in Top mode inside braces, with a non-empty stack
C4_Witness ==
    \E i \in 1..Len(hist) :
        /\ hist[i].kind = "Dollar"
        /\ hist[i].modeBefore = "TopLevel"
        /\ hist[i].stackBefore # <<>>
        /\ hist[i].modeAfter = "FunctionLevel"

\* C5: `;`, `|` or `&` emitted in Function mode makes Top the current mode
\* and leaves the stack as it was; emitted in Top mode it leaves mode and
\* stack as they were.
C5_DelimiterSwitchesToTop ==
    \A i \in 1..Len(hist) :
        hist[i].kind \in {"SemiColon", "Pipe", "Ampersand"} =>
            /\ hist[i].modeBefore \in {"FunctionLevel", "TopLevel"}
            /\ hist[i].modeAfter = "TopLevel"
            /\ hist[i].stackAfter = hist[i].stackBefore

\* a `|` was emitted in Function mode and a `;` in Top mode
C5_Witness ==
    \E i, j \in 1..Len(hist) :
        /\ hist[i].kind = "Pipe"
        /\ hist[i].modeBefore = "FunctionLevel"
        /\ hist[i].modeAfter = "TopLevel"
        /\ hist[j].kind = "SemiColon"
        /\ hist[j].modeBefore = "TopLevel"

\* C6: a `"` emitted outside String mode pushes the current mode and enters
\* String mode; a `"` emitted in String mode pops, so that after a closed
\* string the mode and the stack are the ones before its opening quote.
C6_QuoteTogglesString ==
    \A j \in 1..Len(hist) :
        hist[j].kind = "DoubleQuote" =>
            IF hist[j].modeBefore # "StringLevel"
            THEN /\ hist[j].modeAfter = "StringLevel"
                 /\ hist[j].stackAfter =
                        Append(hist[j].stackBefore, hist[j].modeBefore)
            ELSE \E i \in 1..(j - 1) :
                    /\ hist[i].kind = "DoubleQuote"
                    /\ hist[i].modeBefore # "StringLevel"
                    /\ \A k \in (i + 1)..(j - 1) : hist[k].kind = "Literal"
                    /\ hist[j].modeAfter = hist[i].modeBefore
                    /\ hist[j].stackAfter = hist[i].stackBefore

\* a string opened in Function mode inside braces was closed
C6_Witness ==
    \E i, j \in 1..Len(hist) :
        /\ i < j
        /\ hist[i].kind = "DoubleQuote"
        /\ hist[i].modeBefore = "FunctionLevel"
        /\ hist[i].stackBefore # <<>>
        /\ hist[j].kind = "DoubleQuote"
        /\ hist[j].modeBefore = "StringLevel"
        /\ hist[j].modeAfter = "FunctionLevel"

\* C7: `{` pushes the current mode and enters Top mode; `}` restores the mode
\* and the stack of before the matching `{`, whatever `$ ; | &` came between;
\* a `}` outside a string is always emitted as CloseBrace, and with an empty
\* stack it leaves the tokenizer in Top mode with an empty stack.
C7_BracesPushAndPop ==
    LET Opens(i, k) ==
            Cardinality({m \in (i + 1)..k : hist[m].kind = "OpenBrace"})
        Closes(i, k) ==
            Cardinality({m \in (i + 1)..k : hist[m].kind = "CloseBrace"})
        Matches(i, j) ==
            /\ i < j
            /\ hist[i].kind = "OpenBrace"
            /\ Opens(i, j - 1) = Closes(i, j - 1)
            /\ \A k \in (i + 1)..(j - 1) : Opens(i, k) >= Closes(i, k)
    IN \A j \in 1..Len(hist) :
          /\ hist[j].kind = "OpenBrace" =>
                /\ hist[j].modeAfter = "TopLevel"
                /\ hist[j].stackAfter =
                       Append(hist[j].stackBefore, hist[j].modeBefore)
          /\ hist[j].lexeme = <<"}">> /\ hist[j].modeBefore # "StringLevel" =>
                hist[j].kind = "CloseBrace"
          /\ hist[j].kind = "CloseBrace" =>
                /\ \A i \in 1..(j - 1) :
                      Matches(i, j) =>
                          /\ hist[j].modeAfter = hist[i].modeBefore
                          /\ hist[j].stackAfter = hist[i].stackBefore
                /\ (hist[j].stackBefore = <<>>) = (~\E i \in 1..(j - 1) : Matches(i, j))
                /\ (hist[j].stackBefore = <<>> =>
                        hist[j].modeAfter = "TopLevel" /\ hist[j].stackAfter = <<>>)

\* a `}` in Top mode closed a `{` of Function mode with a `$` in between, and
\* another `}` was emitted with an empty stack
C7_Witness ==
    \E i, k, j, u \in 1..Len(hist) :
        /\ i < k /\ k < j
        /\ hist[i].kind = "OpenBrace"
        /\ hist[i].modeBefore = "FunctionLevel"
        /\ hist[k].kind = "Dollar"
        /\ hist[j].kind = "CloseBrace"
        /\ hist[j].stackBefore = <<"FunctionLevel">>
        /\ hist[j].modeAfter = "FunctionLevel"
        /\ hist[u].kind = "CloseBrace"
        /\ hist[u].stackBefore = <<>>

\* C8: every token carries absolute offsets into the line: the bytes of the
\* line from start to end are the bytes the sub-lexer matched, also after
\* any number of mode switches, and a token ends before the next one starts.
C8_AbsoluteSpans ==
    input = "line" =>
        \A i \in 1..Len(tokens) :
            /\ SubSeq(line, tokens[i].start + 1, tokens[i].end) = hist[i].lexeme
            /\ (i < Len(tokens) => tokens[i].end <= tokens[i + 1].start)

\* a token was lexed by the third sub-lexer or a later one, after skipped
\* whitespace
C8_Witness ==
    \E i \in 3..Len(hist) :
        /\ hist[1].modeAfter # hist[1].modeBefore
        /\ hist[i - 1].modeAfter # hist[i - 1].modeBefore
        /\ tokens[i].start > tokens[i - 1].end
        /\ SubSeq(line, tokens[i].start + 1, tokens[i].end) = hist[i].lexeme

C10_RoundTripExact ==
    phase = "built" /\ find_child_with_kind_rec(pt, "Error") = <<>> =>
        LeafText(pt) = line

\* C10 as amended: for every valid line the text of the leaves of its parse
\* tree, concatenated in pre-order, is the line without the whitespace that
\* the tokenizer skips between tokens; every other byte of the line, the
\* whitespace inside a string included, is kept.
C10_RoundTripModuloWhitespace ==
    LET InToken(p) ==
            \E i \in 1..Len(tokens) : tokens[i].start < p /\ p <= tokens[i].end
        kept[p \in 0..Len(line)] ==
            IF p = 0 THEN <<>>
            ELSE IF InToken(p) THEN Append(kept[p - 1], line[p])
            ELSE kept[p - 1]
    IN phase = "built" /\ find_child_with_kind_rec(pt, "Error") = <<>> =>
          /\ LeafText(pt) = kept[Len(line)]
          /\ \A p \in 1..Len(line) : ~InToken(p) => line[p] \in WhitespaceChars

\* the tree of the valid line  a a  (a command and its argument, one blank
\* between them) has been built; its leaves read  aa
C10_Witness ==
    /\ phase = "built"
    /\ line = <<"a", " ", "a">>
    /\ find_child_with_kind_rec(pt, "Error") = <<>>
    /\ LeafText(pt) = <<"a", "a">>

(***************************************************************************)
(* Properties of the evaluator, on the log of the world.                   *)
(***************************************************************************)
\* the ids of the nodes of a subtree
Ids(node) == {n.id : n \in NodesOf(node)}

\* the places of the log where a node of S did something
RunEvents(S) ==
    {e \in 1..Len(world.log) : world.log[e].node \in S /\ world.log[e].ev # "report"}

\* the places of the log with this entry for this node
EventsAt(ev, id) ==
    {e \in 1..Len(world.log) : world.log[e].ev = ev /\ world.log[e].node = id}

\* a stage that is one external command or one well-typed call of cd
IsSimple(node) == node.data \in SimpleStages

\* the node whose fate decides a simple stage
Runner(node) == IF node.kind = "Command" THEN node ELSE node.children[2]

RunFails(node) == world.fate[Runner(node).id] # "exit0"

\* the node a failure of a simple stage is blamed on: the command, or for
\* cd the node of the config the call was dispatched with
Blame(node, cfg) == IF node.kind = "Command" THEN node.id ELSE cfg.pt

\* the result of a simple stage that was evaluated under cfg
IsResultOf(r, node, cfg) ==
    /\ r.ok <=> ~RunFails(node)
    /\ ~r.ok => r.errors = {[node |-> Blame(node, cfg), kind |-> "Execution"]}

\* C11: evaluating a Delimited node c1 ; ... ; cn executes the children
\* strictly in that order, each one running to completion before the next
\* starts; an error of a child before the last is reported, after that child
\* and before the next one starts, and the later children are still
\* executed; the result is the result of cn.
C11_DelimitedInOrder ==
    (phase = "done" /\ pt.kind = "Delimited") =>
        LET cs == Without(pt.children, "SemiColon") IN
        /\ \A i \in 1..Len(cs) : RunEvents(Ids(cs[i])) # {}
        /\ \A i, j \in 1..Len(cs) :
              i < j => \A a \in RunEvents(Ids(cs[i])), b \in RunEvents(Ids(cs[j])) : a < b
        /\ \A i \in 1..(Len(cs) - 1) :
              IsSimple(cs[i]) =>
                  (RunFails(cs[i]) <=>
                      \E e \in EventsAt("report", Blame(cs[i], config)) :
                          /\ \A a \in RunEvents(Ids(cs[i])) : a < e
                          /\ \A b \in RunEvents(Ids(cs[i + 1])) : e < b)
        /\ IsSimple(cs[Len(cs)]) => IsResultOf(result, cs[Len(cs)], config)

\* a ; a ; a has been evaluated: the first command failed and was reported,
\* the two others ran after it and the result is the one of the last
C11_Witness ==
    /\ phase = "done"
    /\ line = <<"a", ";", "a", ";", "a">>
    /\ world.fate[Without(pt.children, "SemiColon")[1].id] = "exit1"
    /\ world.fate[Without(pt.children, "SemiColon")[3].id] = "exit0"
    /\ EventsAt("report", Without(pt.children, "SemiColon")[1].id) # {}
    /\ EventsAt("wait", Without(pt.children, "SemiColon")[2].id) # {}
    /\ EventsAt("wait", Without(pt.children, "SemiColon")[3].id) # {}
    /\ result.ok

\* the stages of the n-ary node `node` whose separator is `sep`
StagesOf(node, sep) == Without(node.children, sep)

\* C12: evaluating a Sequenced node c1 & ... & cn executes the stages left
\* to right and returns the error of the first stage that fails, without
\* spawning or dispatching any later stage; with no error the evaluation
\* returns the result of cn.
C12_SequencedAbortsOrLast ==
    (phase \in {"done", "panicked"} /\ pt.kind = "Sequenced") =>
        LET cs == StagesOf(pt, "Ampersand")
            Failing == {i \in 1..Len(cs) : RunFails(cs[i])}
        IN (\A i \in 1..Len(cs) : IsSimple(cs[i])) =>
              /\ phase = "done"
              /\ \A i \in Failing :
                    (\A k \in Failing : i <= k) =>
                        /\ IsResultOf(result, cs[i], config)
                        /\ \A j \in (i + 1)..Len(cs) : RunEvents(Ids(cs[j])) = {}
              /\ Failing = {} =>
                    /\ IsResultOf(result, cs[Len(cs)], config)
                    /\ \A j \in 1..Len(cs) : RunEvents(Ids(cs[j])) # {}

\* the entry of the log of the spawn of a command
SpawnOf(id) == world.log[CHOOSE e \in EventsAt("spawn", id) : TRUE]

\* C13: in a pipeline, once it is constructed, the stdout of stage i is the
\* write end and the stdin of stage i+1 the read end of one and the same
\* pipe, so that what stage i writes is what stage i+1 reads.
C13_StagesShareAPipe ==
    (phase = "done" /\ pt.kind = "Piped") =>
        LET cs == StagesOf(pt, "Pipe") IN
        \A i \in 1..(Len(cs) - 1) :
            (EventsAt("spawn", cs[i].id) # {} /\ EventsAt("spawn", cs[i + 1].id) # {}) =>
                \E k \in 1..world.pipes :
                    /\ SpawnOf(cs[i].id).stdout = Obj(k, "w")
                    /\ SpawnOf(cs[i + 1].id).stdin = Obj(k, "r")

\* the node of the tree of the line with this id
NodeOf(id) == CHOOSE n \in NodesOf(pt) : n.id = id

\* the entry of the log for the config a stage was created with
StageOf(id) == world.log[CHOOSE e \in EventsAt("stage", id) : TRUE]

\* the open file a stream is a duplicate of: the slot of the caller, or the
\* terminal stream of that role when the slot is None
Inherited(obj, role) == IF obj = NoObj THEN Obj(0, role) ELSE obj

\* C14: in every pipeline the stdin of the leftmost stage and the stdout and
\* stderr of the rightmost stage are duplicates of the slots of the config
\* of the caller, and of the terminal stream of the same role where the slot
\* is None.
C14_EndsInheritCaller ==
    \A e \in 1..Len(world.log) :
        world.log[e].ev = "piped" =>
            LET cs == StagesOf(NodeOf(world.log[e].node), "Pipe") IN
            /\ EventsAt("stage", cs[1].id) # {} =>
                  StageOf(cs[1].id).stdin = Inherited(world.log[e].stdin, "stdin")
            /\ EventsAt("stage", cs[Len(cs)].id) # {} =>
                  /\ StageOf(cs[Len(cs)].id).stdout = Inherited(world.log[e].stdout, "stdout")
                  /\ StageOf(cs[Len(cs)].id).stderr = Inherited(world.log[e].stderr, "stderr")

\* the places of the log where a command of the subtree was spawned
SpawnsIn(node) ==
    {e \in 1..Len(world.log) : world.log[e].ev = "spawn" /\ world.log[e].node \in Ids(node)}

C16_StageFailureReturned ==
    (phase = "done" /\ pt.kind = "Piped") =>
        LET cs == StagesOf(pt, "Pipe") IN
        \A i \in 1..Len(cs) :
            /\ EventsAt("created", cs[i].id) # {} => EventsAt("execute", cs[i].id) # {}
            /\ (IsSimple(cs[i]) /\ RunFails(cs[i])) =>
                  /\ ~result.ok
                  /\ \E d \in result.errors : d.node = cs[i].id

\* C17: the descriptors of the config a command, a call or a nested line is
\* evaluated with are open and refer to the same open files when the
\* evaluation returns as when it started, and the three streams of the
\* terminal are never touched.
C17_CallerConfigIntact ==
    /\ \A fd \in DOMAIN World0.fds : ObjAt(world, fd) = World0.fds[fd]
    /\ \A a, b \in 1..Len(world.log) :
          (/\ world.log[a].ev = "stage"
           /\ world.log[b].ev = "created"
           /\ world.log[a].node = world.log[b].node) =>
              /\ world.log[a].stdin # NoObj
              /\ world.log[a].stdout # NoObj
              /\ world.log[a].stderr # NoObj
              /\ world.log[b].stdin = world.log[a].stdin
              /\ world.log[b].stdout = world.log[a].stdout
              /\ world.log[b].stderr = world.log[a].stderr

\* a | ${a | a} has been evaluated: a command and a nested pipeline were
\* evaluated with the configs of their stages and spawned commands on them
C17_Witness ==
    /\ phase = "done"
    /\ line = <<"a", "|", "$", "{", "a", "|", "a", "}">>
    /\ \A i \in 1..2 : EventsAt("created", StagesOf(pt, "Pipe")[i].id) # {}
    /\ Cardinality(SpawnsIn(StagesOf(pt, "Pipe")[2])) = 2
    /\ Cardinality(SpawnsIn(StagesOf(pt, "Pipe")[1])) = 1

\* C18: after a successful evaluation the descriptors that are open in the
\* shell are the ones that were open before it, on the same open files.
C18_NoDescriptorLeft ==
    (phase = "done" /\ result.ok) => world.fds = World0.fds

\* the pipeline a | $cd("a") | a has been evaluated with success: pipes,
\* clones and ends of child pipes had been opened
C18_Witness ==
    /\ phase = "done"
    /\ line = <<"a", "|">> \o CdCall \o <<"|", "a">>
    /\ result.ok
    /\ world.pipes > 2
    /\ Cardinality({e \in 1..Len(world.log) : world.log[e].ev = "spawn"}) = 2
    /\ Cardinality({e \in 1..Len(world.log) : world.log[e].ev = "pseudo"}) = 1

\* the line is a call of the builtin cd
IsCdCall(node) ==
    /\ node.kind = "Function"
    /\ node.children[2].kind = "PropertyCall"
    /\ node.children[2].children[1].data = <<"c", "d">>

\* the Parameter nodes of a call
ParametersOf(call) ==
    SelectSeq(call.children[2].children, LAMBDA c : c.kind = "Parameter")

\* the types a parameter has an implicit for
TypesOf(param) ==
    CASE param.children[1].kind = "StringLiteral" -> {"String"}
      [] param.children[1].kind = "NumberLiteral" -> {"Number"}
      [] OTHER -> {}

\* the parameter has an implicit for a type that the argument accepts
Fits(param, argument) ==
    \E t \in 1..Len(argument.possible_types) : argument.possible_types[t] \in TypesOf(param)

\* every parameter of the call was evaluated without an error
ParametersEvaluated(call) ==
    \A n \in NodesOf(call.children[2]) : n.kind = "Command" => world.fate[n.id] = "exit0"

\* the call was refused with a Semantic diagnostic on this node, before dispatch
Refused(call, id) ==
    /\ EventsAt("dispatch", call.id) = {}
    /\ result = new_single(id, "Semantic")

\* C19: the dispatch function of a callee is invoked only if the number of
\* evaluated arguments equals the number of declared arguments and every
\* argument has an implicit for an accepted type of the argument at its
\* position; a call with another number of arguments is refused with a
\* Semantic diagnostic on the node of the argument list, and a call with an
\* argument of no accepted type with a Semantic diagnostic on the node of
\* the first such argument; dispatch is not invoked then.
C19_ValidatedBeforeDispatch ==
    (phase = "done" /\ IsCdCall(pt) /\ ParametersEvaluated(pt.children[2])) =>
        LET call == pt.children[2]
            ps == ParametersOf(call)
            declared == Cd.callee.arguments
            Bad == {i \in 1..Len(ps) : i <= Len(declared) /\ ~Fits(ps[i], declared[i])}
        IN IF Len(ps) # Len(declared) THEN Refused(call, call.children[2].id)
           ELSE IF Bad # {}
           THEN \E i \in Bad : (\A k \in Bad : i <= k) /\ Refused(call, ps[i].id)
           ELSE EventsAt("dispatch", call.id) # {}

\* C19 as stated: every refused call has its Semantic diagnostic on the node
\* of an argument.
C19_DiagnosticOnArgument ==
    (phase = "done" /\ IsCdCall(pt) /\ ParametersEvaluated(pt.children[2])) =>
        LET call == pt.children[2]
            ps == ParametersOf(call)
            declared == Cd.callee.arguments
        IN IF Len(ps) = Len(declared) /\ \A i \in 1..Len(ps) : Fits(ps[i], declared[i])
           THEN EventsAt("dispatch", call.id) # {}
           ELSE /\ EventsAt("dispatch", call.id) = {}
                /\ \E i \in 1..Len(ps) : result = new_single(ps[i].id, "Semantic")

\* $cd("a" 1) has been evaluated: the call has one argument too many and
\* was refused with the diagnostic on the node of its argument list
C19_Witness ==
    /\ phase = "done"
    /\ IsCdCall(pt)
    /\ Len(ParametersOf(pt.children[2])) = 2
    /\ TypesOf(ParametersOf(pt.children[2])[1]) = {"String"}
    /\ TypesOf(ParametersOf(pt.children[2])[2]) = {"Number"}
    /\ Refused(pt.children[2], pt.children[2].children[2].id)

\* the exit code a fate stands for
ExitCode(fate) == IF fate = "exit0" THEN 0 ELSE 1

\* C20: executing the Process execution of a command that was waited for
\* returns Ok with an entity whose status property is the exit code, also
\* when the code is not zero; only a failure of wait is an Execution error.
C20_NonZeroExitIsOk ==
    (phase = "done" /\ pt.kind = "Command" /\ EventsAt("wait", pt.id) # {}) =>
        IF world.fate[pt.id] = "waiterr"
        THEN result = new_single(pt.id, "Execution")
        ELSE /\ result.ok
             /\ HasProperty(result.entity, StatusName)
             /\ GetProperty(result.entity, StatusName)
                    = NumberEntity(ExitCode(world.fate[pt.id]))

\* the line $cd("a") has been evaluated and set_current_dir met this fate
CdDone(fate) ==
    /\ phase = "done"
    /\ line = CdCall
    /\ world.fate[pt.children[2].id] = fate

\* C21: a successful $cd(p) changes the working directory of the process to
\* p and returns an entity that has a status property equal to 0 and a path
\* property.
C21_CdReturnsStatusAndPath ==
    CdDone("exit0") =>
        /\ world.cwd = <<"a">>
        /\ result.ok
        /\ HasProperty(result.entity, StatusName)
        /\ GetProperty(result.entity, StatusName) = NumberEntity(0)
        /\ HasProperty(result.entity, PathName)

\* C22: $cd(p) for a path that cannot be entered returns a diagnostic of
\* kind Execution on the PropertyCall node of the call and leaves the
\* working directory of the process unchanged.
C22_FailedCdBlamesCall ==
    CdDone("exit1") =>
        /\ pt.children[2].kind = "PropertyCall"
        /\ result = new_single(pt.children[2].id, "Execution")
        /\ world.cwd = HomeDir

\* C23: the evaluator never panics on a user program: for every line whose
\* parse tree has no Error node execute() returns a value or a diagnostic
\* bundle.
C23_NeverPanics ==
    (phase \notin {"prompt", "skipped", "tree", "rejected"}) =>
        /\ find_child_with_kind_rec(pt, "Error") = <<>>
        /\ ~world.panic
        /\ phase \in {"returned", "done"}

(***************************************************************************)
(* Properties of inference and of the annotators.                          *)
(***************************************************************************)
\* C24: inference never raises: infer_value on any node returns an entity
\* or None without panicking, and returns None for the execution-only
\* kinds (BracedCommand, Delimited, Sequenced, Piped).
C24_InferenceNeverRaises ==
    (phase = "inferred") =>
        /\ inferred.tag \in {"Some", "None"}
        /\ NodeOf(focus).kind \in {"BracedCommand", "Delimited", "Sequenced", "Piped"}
               => inferred.tag = "None"

\* C30: the inference of a Function node ($ Value) equals the inference of
\* the Value it contains.
C30_FunctionInfersItsValue ==
    (phase = "inferred" /\ NodeOf(focus).kind = "Function"
        /\ Len(NodeOf(focus).children) > 1
        /\ NodeOf(focus).children[2].kind \in TypedKinds) =>
        inferred = infer_value(entities, NodeOf(focus).children[2].kind,
                               NodeOf(focus).children[2])

\* a PropertyInsn  left . name
HasLeft(insn) == insn.kind = "PropertyInsn" /\ Len(insn.children) = 3

\* the entity the left side of a PropertyInsn evaluates to, where the left
\* side is a literal or a command in braces that has run and exited with 0
LeftValue(left) ==
    IF left.kind = "BracedCommand"
    THEN with_property(make_entity("Execution result"), StatusName, NumberEntity(0))
    ELSE infer_primitive(left)

LeftRuns(left) ==
    \/ left.kind \in {"StringLiteral", "NumberLiteral"}
    \/ /\ left.kind = "BracedCommand"
       /\ left.children[2].kind = "Command"
       /\ world.fate[left.children[2].id] = "exit0"

\* the name of a lookup is found on the entity iff it is a key of the
\* entity's own properties, and then the lookup yields that property
FoundOnlyOwn(found, value, entity, name) ==
    /\ found <=> name \in DOMAIN entity.properties
    /\ found => value = entity.properties[name]

\* C25: property lookup is direct and not inherited: in inference and in
\* evaluation, resolving a name on an entity succeeds only if the name is a
\* key of the entity's own properties; a property that only the prototype
\* of the entity has is not found.
C25_LookupIsDirect ==
    /\ (phase = "inferred" /\ HasLeft(NodeOf(focus))) =>
           LET insn == NodeOf(focus)
               left == infer_value(entities, insn.children[1].kind, insn.children[1])
           IN left.tag = "Some" =>
                  FoundOnlyOwn(inferred.tag = "Some", inferred.entity, left.entity,
                               insn.children[3].data)
    /\ (phase = "inferred" /\ NodeOf(focus).kind = "PropertyName") =>
           FoundOnlyOwn(inferred.tag = "Some", inferred.entity, entities.global,
                        NodeOf(focus).data)
    /\ (phase = "done" /\ input = "edit" /\ pt.kind = "Function"
           /\ HasLeft(pt.children[2]) /\ LeftRuns(pt.children[2].children[1])) =>
           LET insn == pt.children[2] IN
           /\ FoundOnlyOwn(result.ok, result.entity, LeftValue(insn.children[1]),
                           insn.children[3].data)
           /\ ~result.ok => result = new_single(insn.id, "Semantic")

\* the inference of "a".a where the prototype any has a property a and the
\* String entity has none: nothing is found
C25_Witness ==
    /\ phase = "inferred"
    /\ HasLeft(NodeOf(focus))
    /\ LET insn == NodeOf(focus)
           left == infer_value(entities, insn.children[1].kind, insn.children[1])
       IN /\ left.tag = "Some"
          /\ left.entity.prototype = "Any"
          /\ insn.children[3].data \in DOMAIN entities.any.properties
          /\ insn.children[3].data \notin DOMAIN left.entity.properties
          /\ inferred.tag = "None"

\* the entity the claim calls the left entity of a PropertyName node: global
\* for a name that starts the value, and what inference yields for the left
\* side of the dot otherwise
LeftEntity(name) ==
    LET insn == CHOOSE p \in NodesOf(pt) : p.id = name.parent IN
    IF Len(insn.children) = 1 THEN Inference("Some", entities.global)
    ELSE infer_value(entities, insn.children[1].kind, insn.children[1])

Range(seq) == {seq[i] : i \in 1..Len(seq)}

Matching(text) == SelectSeq(names, LAMBDA x : starts_with(x, text))

\* C27: the CommandName annotator emits at most 5 completions; each is a
\* cached name that starts with the text of the node, they are the first
\* such names in cache order, and a node of any other kind gets no
\* completion from it.
C27_CommandNameAnnotator ==
    phase = "completed" =>
        /\ sink.colors = <<>>
        /\ sink.hints = <<>>
        /\ Len(sink.completions) <= 5
        /\ IF NodeOf(focus).kind = "CommandName"
           THEN LET all == Matching(NodeOf(focus).data) IN
                sink.completions
                    = SubSeq(all, 1, IF Len(all) < 5 THEN Len(all) ELSE 5)
           ELSE sink.completions = <<>>

\* six names of the cache start with the text of a CommandName node and the
\* sixth differs from the fifth: the first five were emitted
C27_Witness ==
    /\ phase = "completed"
    /\ NodeOf(focus).kind = "CommandName"
    /\ Len(Matching(NodeOf(focus).data)) = 6
    /\ names[6] # names[5]
    /\ sink.completions = SubSeq(names, 1, 5)

(***************************************************************************)
(* Properties of the parse-tree builder.                                   *)
(***************************************************************************)
RECURSIVE PreOrder(_), PreOrderFrom(_, _)

PreOrderFrom(kids, k) ==
    IF k > Len(kids) THEN <<>>
    ELSE PreOrder(kids[k]) \o PreOrderFrom(kids, k + 1)

\* the nodes of a tree in pre-order, the root first
PreOrder(node) == <<node>> \o PreOrderFrom(node.children, 1)

\* C28: NodeIds are assigned by a pre-order counter: the k-th node visited
\* in pre-order (the root first, counting from 0) has NodeId k, so the ids
\* of a tree with m nodes are exactly 0..m-1.
C28_IdsCountPreOrder ==
    phase = "built" =>
        /\ \A k \in 1..Len(PreOrder(pt)) : PreOrder(pt)[k].id = k - 1
        /\ {n.id : n \in NodesOf(pt)} = 0..(Cardinality(NodesOf(pt)) - 1)

\* C29: a parse-tree node built from an Error node of the abstract tree has
\* as kind the kind that was expected at that place, never Error, while
\* find_child_with_kind_rec(Error) still finds the node through its origin.
C29_ErrorNodesCarryExpectedKind ==
    phase = "built" =>
        /\ Len(PreOrder(pt)) = Len(PreOrder(ast.tree))
        /\ \A k \in 1..Len(PreOrder(pt)) :
              LET from == PreOrder(ast.tree)[k]
                  node == PreOrder(pt)[k]
              IN /\ node.origin = from.kind
                 /\ from.kind = "Error" =>
                       /\ node.kind = from.expected
                       /\ node.kind # "Error"
                       /\ find_child_with_kind_rec(node, "Error") = <<node>>
                       /\ find_child_with_kind_rec(pt, "Error") # <<>>
                       /\ find_child_with_kind_rec(pt, "Error")[1].origin = "Error"

\* a tree with two nodes built from Error nodes, of which the search from the
\* root finds the first in pre-order, whose kind is Command
C29_Witness ==
    /\ phase = "built"
    /\ \E i, j \in 1..Len(PreOrder(pt)) :
          /\ i < j
          /\ PreOrder(ast.tree)[i].kind = "Error"
          /\ PreOrder(ast.tree)[j].kind = "Error"
          /\ \A k \in 1..(i - 1) : PreOrder(ast.tree)[k].kind # "Error"
          /\ PreOrder(pt)[i].kind = "Command"
          /\ find_child_with_kind_rec(pt, "Error") = <<PreOrder(pt)[i]>>

(***************************************************************************)
(* Further properties of the tokenizer.                                    *)
(***************************************************************************)
\* C31: in Top mode `{` is not a structural token: it is lexed as (part of)
\* a Literal and pushes no context, so a context is pushed by `{` only when
\* the tokenizer is in Function mode.
C31_TopBraceIsLiteral ==
    \A j \in 1..Len(hist) :
        /\ ("{" \in Range(hist[j].lexeme) /\ hist[j].modeBefore = "TopLevel") =>
              /\ hist[j].kind = "Literal"
              /\ hist[j].modeAfter = "TopLevel"
              /\ hist[j].stackAfter = hist[j].stackBefore
        /\ ("{" \in Range(hist[j].lexeme)
               /\ hist[j].stackAfter # hist[j].stackBefore) =>
              /\ hist[j].modeBefore = "FunctionLevel"
              /\ hist[j].kind = "OpenBrace"

\* the line  a {  was lexed in Top mode as Literal, Literal: the `{` is a
\* Literal of its own and nothing was pushed
C31_Witness ==
    /\ phase = "lexed"
    /\ line = <<"a", " ", "{">>
    /\ Len(hist) = 2
    /\ hist[2].kind = "Literal"
    /\ hist[2].lexeme = <<"{">>
    /\ hist[2].modeBefore = "TopLevel"
    /\ hist[2].stackAfter = <<>>

\* C35: while the tokenizer is in String mode the only tokens are
\* DoubleQuote and Literal: the characters $ { } | ; & (and blanks) inside a
\* string are part of the Literal and cause no mode switch and no push or
\* pop; the Literal starts right after the opening quote and runs to the
\* next quote, or to the end of the line when the string is not closed.
C35_StringModeTokens ==
    input = "line" =>
        \A j \in 1..Len(hist) :
            hist[j].modeBefore = "StringLevel" =>
                /\ hist[j].kind \in {"DoubleQuote", "Literal"}
                /\ hist[j].kind = "Literal" =>
                      /\ hist[j].modeAfter = "StringLevel"
                      /\ hist[j].stackAfter = hist[j].stackBefore
                      /\ "\"" \notin Range(hist[j].lexeme)
                      /\ hist[j].lexeme
                             = SubSeq(line, tokens[j].start + 1, tokens[j].end)
                      /\ tokens[j].start = tokens[j - 1].end
                      /\ \/ tokens[j].end = Len(line)
                         \/ line[tokens[j].end + 1] = "\""

\* an unclosed string that holds a `$` and a `}` was lexed to the end of the
\* line as one Literal
C35_Witness ==
    /\ phase = "lexed"
    /\ input = "line"
    /\ Len(hist) >= 2
    /\ hist[Len(hist)].kind = "Literal"
    /\ hist[Len(hist)].modeBefore = "StringLevel"
    /\ {"$", "}"} \subseteq Range(hist[Len(hist)].lexeme)
    /\ tokens[Len(hist)].end = Len(line)

(***************************************************************************)
(* Further properties of the evaluator.                                    *)
(***************************************************************************)
\* the line is  $ insn  for a PropertyInsn and has been evaluated
InsnDone ==
    /\ phase = "done"
    /\ input = "edit"
    /\ pt.kind = "Function"
    /\ pt.children[2].kind = "PropertyInsn"

\* the outcome of looking the name up on the entity for the PropertyInsn insn
Resolved(entity, name, insn) ==
    IF name \in DOMAIN entity.properties
    THEN Ok(entity.properties[name])
    ELSE new_single(insn.id, "Semantic")

\* C32: evaluating a PropertyInsn resolves the named property and returns
\* that entity without invoking its callee: nothing is dispatched or spawned
\* and the working directory is not changed, except by what the left side
\* of the dot runs, even if the property is callable; a name that is not a
\* property of the left entity (global for a single name) yields a Semantic
\* diagnostic on the PropertyInsn node.
C32_InsnResolvesOnly ==
    InsnDone =>
        LET insn == pt.children[2] IN
        /\ \A e \in 1..Len(world.log) :
              world.log[e].ev \in {"dispatch", "pseudo", "spawn", "wait"} =>
                  /\ Len(insn.children) = 3
                  /\ world.log[e].node \in Ids(insn.children[1])
        /\ world.cwd # HomeDir =>
              /\ Len(insn.children) = 3
              /\ \E e \in 1..Len(world.log) :
                    /\ world.log[e].ev = "pseudo"
                    /\ world.log[e].node \in Ids(insn.children[1])
        /\ Len(insn.children) = 1 =>
              result = Resolved(entities.global, insn.children[1].data, insn)
        /\ (HasLeft(insn) /\ LeftRuns(insn.children[1])) =>
              result = Resolved(LeftValue(insn.children[1]), insn.children[3].data,
                                insn)
        /\ (HasLeft(insn) /\ insn.children[1].kind = "PropertyInsn"
               /\ Len(insn.children[1].children) = 1
               /\ insn.children[1].children[1].data
                      \in DOMAIN entities.global.properties) =>
              result = Resolved(entities.global.properties[
                                    insn.children[1].children[1].data],
                                insn.children[3].data, insn)

\* the line  $cd  has been evaluated: the result is the callable entity of
\* cd itself, nothing was dispatched and the working directory is the old one
C32_Witness ==
    /\ InsnDone
    /\ line = <<"$", "c", "d">>
    /\ result.ok
    /\ result.entity.callee.kind = "Cd"
    /\ world.cwd = HomeDir
    /\ \A e \in 1..Len(world.log) : world.log[e].ev # "dispatch"

\* a command of the parameter did not exit with 0: evaluating the parameter
\* returns an error
ParameterFails(param) ==
    \E n \in NodesOf(param) : n.kind = "Command" /\ world.fate[n.id] # "exit0"

\* the error that evaluating a failing parameter  {a}  returns
ParameterError(param) ==
    LET c == CHOOSE n \in NodesOf(param) : n.kind = "Command" IN
    [ok |-> FALSE, entity |-> make_entity("none"),
     errors |-> {[node |-> c.id, kind |-> "Execution"]}]

\* C36: in a PropertyCall the Parameters are evaluated left to right before
\* arity and type validation; if evaluating parameter i returns an error,
\* that error is the result of the call, the parameters after i are not
\* evaluated and the dispatch of the callee is not invoked.
C36_ParametersInOrder ==
    (phase = "done" /\ IsCdCall(pt)) =>
        LET call == pt.children[2]
            ps == ParametersOf(call)
            Failing == {i \in 1..Len(ps) : ParameterFails(ps[i])}
            Evaluated == {i \in 1..Len(ps) : \A k \in Failing : i <= k}
        IN /\ \A i \in 1..Len(ps) :
                 IF i \in Evaluated
                 THEN \A n \in NodesOf(ps[i]) :
                          n.kind = "Command" => RunEvents({n.id}) # {}
                 ELSE RunEvents(Ids(ps[i])) = {}
           /\ \A i, j \in Evaluated :
                 i < j => \A a \in RunEvents(Ids(ps[i])), b \in RunEvents(Ids(ps[j])) :
                              a < b
           /\ Failing # {} =>
                 /\ \E i \in Failing : i \in Evaluated /\ result = ParameterError(ps[i])
                 /\ EventsAt("dispatch", call.id) = {}

\* $cd({a} {a}) has been evaluated: the first command failed, its error is
\* the result, and the second command was not run
C36_Witness ==
    /\ phase = "done"
    /\ IsCdCall(pt)
    /\ Len(ParametersOf(pt.children[2])) = 2
    /\ ParameterFails(ParametersOf(pt.children[2])[1])
    /\ ParametersOf(pt.children[2])[2].children[1].kind = "BracedCommand"
    /\ RunEvents(Ids(ParametersOf(pt.children[2])[2])) = {}
    /\ result = ParameterError(ParametersOf(pt.children[2])[1])

(***************************************************************************)
(* Properties of the main loop.                                            *)
(***************************************************************************)
\* C37: the main loop evaluates a committed line only if its parse tree
\* holds no Error node: for an empty line nothing is parsed or evaluated,
\* for a tree with an Error node the line is rejected ("Syntax error") and
\* execute() is not called, and the loop ends only when next_line returns no
\* line.
C37_MainLoop ==
    /\ phase = "skipped" =>
          /\ line = <<>>
          /\ tokens = <<>> /\ pt = NoPT
          /\ world.log = <<>> /\ config = NoConfig
    /\ phase = "rejected" =>
          /\ find_child_with_kind_rec(pt, "Error") # <<>>
          /\ world.log = <<>> /\ config = NoConfig
    /\ phase \in {"returned", "panicked", "done"} =>
          /\ line # <<>>
          /\ find_child_with_kind_rec(pt, "Error") = <<>>
    /\ phase \notin {"await", "prompt", "tree", "returned", "skipped", "rejected",
                    "done"} =>
          phase = "ended"

(***************************************************************************)
(* Properties of descriptor ownership and of child processes.              *)
(***************************************************************************)
\* C33: every file descriptor is closed at most once: no close of the
\* evaluator (the drop of a File, of an OwnedFd, of a stream of a Child) acts
\* on a descriptor that is not open, in particular none on a stream of a
\* child that the File wrapped around it in redir has closed already.
C33_ClosedAtMostOnce ==
    world.stray = <<>>

\* the nodes of the children that were spawned, and of those waited for
Spawned == {world.log[i].node : i \in {j \in DOMAIN world.log : world.log[j].ev = "spawn"}}

Waited == {world.log[i].node : i \in {j \in DOMAIN world.log : world.log[j].ev = "wait"}}

\* C34: when the result of a line is back in the main loop, every child that
\* was spawned for the line has been waited for, also when a pipe, a dup or
\* the dup2 after a spawn has failed.
C34_ChildrenWaited ==
    phase = "done" => Spawned \subseteq Waited

(***************************************************************************)
(* Properties of the links of the parse tree.                              *)
(***************************************************************************)
\* C39: within the parse tree of a line the NodeIds are pairwise distinct and
\* strictly increasing in pre-order, the parent of every node but the root
\* is the node that holds it in its children at index `position`, the root
\* has no parent, root() of every node is the root of the tree, and
\* find_node from the root finds for every id of the tree the node that
\* carries it; every NodeId in the errors of the result of the evaluator
\* is found by find_node from the root of the evaluated tree.
C39_TreeLinks ==
    /\ \A j, k \in 1..Len(PreOrder(pt)) :
          j < k => PreOrder(pt)[j].id < PreOrder(pt)[k].id
    /\ pt.parent = -1
    /\ \A p \in NodesOf(pt) : \A k \in DOMAIN p.children :
          /\ p.children[k].parent = p.id
          /\ p.children[k].position = k - 1
    /\ \A n \in NodesOf(pt) :
          /\ n.root = pt.id
          /\ find_node(pt, n.id) = <<n>>
    /\ phase = "done" => \A e \in result.errors : find_node(pt, e.node) # <<>>

\* a failed line with a tree of three levels and an error blamed on a node
\* below the root
C39_Witness ==
    /\ phase = "done"
    /\ ~result.ok
    /\ \E e \in result.errors : e.node # pt.id
    /\ \E n \in NodesOf(pt) : n.parent \notin {-1, pt.id}

(***************************************************************************)
(* Properties of the key loop of the line editor.                          *)
(***************************************************************************)
\* C40: after any sequence of keys the key loop has not panicked, and while
\* it reads keys 0 <= cursor <= len(line) holds and the cursor is an index
\* at which the line takes an insertion (a char boundary of the String).
C40_CursorValid ==
    input = "keys" =>
        /\ phase # "panicked"
        /\ 0 <= cursor
        /\ cursor <= Len(line)
        /\ is_char_boundary(line, cursor)

(***************************************************************************)
(* Properties of the cache of PathAnnotator.                               *)
(***************************************************************************)
\* the completions annotate gives for the node in focus on a cache
CompletionsOn(cache) ==
    path_annotate(cache, CHOOSE n \in NodesOf(pt) : n.id = focus, AnnotationsSink)

\* C38: the cache is touched only by the holder of its mutex: the mutex is
\* held by the refresher exactly between its lock and its push and by the
\* main loop exactly inside annotate, so a holder never waits for the other
\* thread; the refresher changes the cache only by appending, under the
\* mutex, one name of the scan per acquisition, so the cache is always a
\* prefix of what the scan yields; annotate gives the completions of such a
\* prefix; and the refresher ends after one scan.
C38_PathCache ==
    /\ [](/\ mutex = "refresher" <=> refresher.pc = "locked"
          /\ mutex = "main" <=> annotator = "locked"
          /\ names = SubSeq(dir, 1, refresher.entry - 1)
          /\ (focus # None /\ annotator = "idle") =>
                 \E j \in 0..Len(names) : sink = CompletionsOn(SubSeq(dir, 1, j)))
    /\ [][names' # names =>
              /\ mutex = "refresher"
              /\ mutex' = "free"
              /\ names' = Append(names, dir[refresher.entry])]_vars
    /\ <>[](refresher.pc = "done" /\ names = dir)

\* annotate has run while the refresher was in the middle of its scan, and
\* gave completions of the names pushed so far
C38_Witness ==
    /\ input = "path"
    /\ annotator = "idle"
    /\ focus # None
    /\ sink.completions # <<>>
    /\ refresher.pc = "locked"
    /\ Len(names) < Len(dir)
    /\ sink # CompletionsOn(dir)

============================================================================
